---- MODULE Spec2Model ----
(***************************************************************************)
(* Inkwell: the agentic chat stream (useOllama.agenticChatStream and its   *)
(* caller in Header.tsx), the tool executor (documentTools.executeTool)    *)
(* and the chunker (textChunker.chunkText).                                *)
(*                                                                         *)
(* Text is a sequence of tokens.  A token is a string: one character       *)
(* ("{", a quote, a backslash, "n", ...) or an indivisible run of          *)
(* characters that holds no quote, backslash, brace or white space         *)
(* ("tool", "Hello", "'''json", "<think>").  The JavaScript string is the  *)
(* concatenation of the tokens, and its length the sum of their lengths;   *)
(* the regular expressions and the JSON grammar are applied token by       *)
(* token.  The streamed deltas never put a backslash before a word token.  *)
(* A backtick cannot be written in a TLA+ string: the code fence is        *)
(* written with apostrophes, which keeps its length.                       *)
(***************************************************************************)
EXTENDS Integers, Sequences, FiniteSets, TLC

(* ------------------------------ tokens -------------------------------- *)
Q  == "\""
BS == "\\"
SP == " "
NL == "\n"
LB == "{"
RB == "}"
COLON == ":"
COMMA == ","
FenceJson == "'''json"
Fence == "'''"
ThinkOpen == "<think>"
ThinkClose == "</think>"

IsWs(t) == t \in {SP, NL}

RECURSIVE StrLen(_)
StrLen(s) == IF s = <<>> THEN 0 ELSE Len(Head(s)) + StrLen(Tail(s))

Slice(s, i, j) == IF i > j THEN <<>> ELSE SubSeq(s, i, j)

\* The first index >= i of s that holds no white space (Len(s)+1 if none).
RECURSIVE SkipWs(_, _)
SkipWs(s, i) == IF i > Len(s) THEN Len(s) + 1
                ELSE IF IsWs(s[i]) THEN SkipWs(s, i + 1) ELSE i

RECURSIVE SkipWsBack(_, _)
SkipWsBack(s, j) == IF j < 1 THEN 0
                    ELSE IF IsWs(s[j]) THEN SkipWsBack(s, j - 1) ELSE j

Trim(s) == Slice(s, SkipWs(s, 1), SkipWsBack(s, Len(s)))

StartsWith(s, t) == s # <<>> /\ s[1] = t

Includes(s, t) == \E i \in 1..Len(s) : s[i] = t

Min(S) == CHOOSE x \in S : \A y \in S : x <= y
Max(S) == CHOOSE x \in S : \A y \in S : x >= y

\* String.prototype.replace(/ab/g, r) for a two-token pattern a b.
RECURSIVE ReplacePair(_, _, _, _)
ReplacePair(s, a, b, r) ==
    IF Len(s) < 2 THEN s
    ELSE IF s[1] = a /\ s[2] = b
         THEN <<r>> \o ReplacePair(Slice(s, 3, Len(s)), a, b, r)
         ELSE <<s[1]>> \o ReplacePair(Tail(s), a, b, r)

\* String.prototype.replace(/t/g, '') for a one-token pattern.
RemoveAll(s, t) == SelectSeq(s, LAMBDA x : x # t)

(* ------------- partial-JSON pattern matching (regex scanner) ---------- *)
\* /"key"\s*:\s*"/ tried at index i: the index after the opening quote of the
\* value, or 0 when the pattern does not match there.
KeyValueAt(s, i, keys) ==
    IF i + 2 <= Len(s) /\ s[i] = Q /\ s[i + 1] \in keys /\ s[i + 2] = Q
    THEN LET c == SkipWs(s, i + 3) IN
         IF c <= Len(s) /\ s[c] = COLON
         THEN LET v == SkipWs(s, c + 1) IN
              IF v <= Len(s) /\ s[v] = Q THEN v + 1 ELSE 0
         ELSE 0
    ELSE 0

\* The greedy group ((?:[^"\\]|\\.)*) from index i: the index after its last
\* token.  A backslash takes the token after it; a backslash that ends the text
\* is not matched.
RECURSIVE EscapedRunEnd(_, _)
EscapedRunEnd(s, i) ==
    IF i > Len(s) THEN i
    ELSE IF s[i] = Q THEN i
    ELSE IF s[i] = BS
         THEN IF i + 1 <= Len(s) THEN EscapedRunEnd(s, i + 2) ELSE i
         ELSE EscapedRunEnd(s, i + 1)

\* fullText.match(/"(k1|k2)"\s*:\s*"((?:[^"\\]|\\.)*)/s): the value group of the
\* leftmost match.
NoMatch == [found |-> FALSE, text |-> <<>>]

Matched(t) == [found |-> TRUE, text |-> t]

MatchStringField(s, keys) ==
    LET at == {i \in 1..Len(s) : KeyValueAt(s, i, keys) # 0} IN
    IF at = {} THEN NoMatch
    ELSE LET v == KeyValueAt(s, Min(at), keys)
         IN Matched(Slice(s, v, EscapedRunEnd(s, v) - 1))

\* raw.split(/(?<!\\)"/)[0]: the text before the first quote that no backslash
\* precedes.
QuoteSplitFirst(s) ==
    LET at == {i \in 1..Len(s) : s[i] = Q /\ (i = 1 \/ s[i - 1] # BS)} IN
    IF at = {} THEN s ELSE Slice(s, 1, Min(at) - 1)

\* .replace(/\\n/g, '\n').replace(/\\"/g, '"').replace(/\\\\/g, '\\')
Unescape(s) ==
    ReplacePair(ReplacePair(ReplacePair(s, BS, "n", NL), BS, Q, Q), BS, BS, BS)

\* fullText.match(/"tool"\s*:\s*"([^"]+)"/): the name group of the leftmost
\* match.  The value must be closed and not empty.
ToolMatchAt(s, i) ==
    LET v == KeyValueAt(s, i, {"tool"}) IN
    /\ v # 0
    /\ v <= Len(s)
    /\ s[v] # Q
    /\ \E q \in (v + 1)..Len(s) : s[q] = Q

MatchTool(s) ==
    LET at == {i \in 1..Len(s) : ToolMatchAt(s, i)} IN
    IF at = {} THEN NoMatch
    ELSE LET v == KeyValueAt(s, Min(at), {"tool"})
             q == Min({k \in (v + 1)..Len(s) : s[k] = Q})
         IN Matched(Slice(s, v, q - 1))

\* fullText.match(/<think(?:ing)?>([\s\S]*?)(?:<\/think(?:ing)?>|$)/i): the
\* body of the leftmost tag, up to the first closing tag after it or the end.
MatchThinkTag(s) ==
    LET at == {i \in 1..Len(s) : s[i] = ThinkOpen} IN
    IF at = {} THEN NoMatch
    ELSE LET o == Min(at)
             cl == {k \in (o + 1)..Len(s) : s[k] = ThinkClose}
         IN Matched(Slice(s, o + 1, IF cl = {} THEN Len(s) ELSE Min(cl) - 1))

(* ------------------------------ JSON.parse ---------------------------- *)
\* A JavaScript value: a string, an object (a field of the tool call that is
\* itself an object), an array of strings, an array that holds one row (an
\* array of strings), or undefined.
StrVal(t) == [t |-> "str", v |-> t]
ObjVal == [t |-> "obj", v |-> <<>>]
ArrVal(items) == [t |-> "arr", v |-> items]
RowsVal(cells) == [t |-> "rows", v |-> cells]
Undefined == [t |-> "undef", v |-> <<>>]

ParseFail == [ok |-> FALSE, val |-> Undefined, obj |-> <<>>, next |-> 0]

\* The closing quote of the JSON string whose text starts at j, or 0: a raw
\* line break and a backslash before anything but a quote, a backslash, "n"
\* or "/" are syntax errors.
RECURSIVE JsonStringEnd(_, _)
JsonStringEnd(s, j) ==
    IF j > Len(s) THEN 0
    ELSE IF s[j] = Q THEN j
    ELSE IF s[j] = NL THEN 0
    ELSE IF s[j] = BS
         THEN IF j + 1 <= Len(s) /\ s[j + 1] \in {Q, BS, "n", "/"}
              THEN JsonStringEnd(s, j + 2) ELSE 0
         ELSE JsonStringEnd(s, j + 1)

RECURSIVE JsonDecode(_)
JsonDecode(s) ==
    IF s = <<>> THEN <<>>
    ELSE IF s[1] = BS /\ Len(s) >= 2
         THEN <<IF s[2] = "n" THEN NL ELSE s[2]>> \o JsonDecode(Slice(s, 3, Len(s)))
         ELSE <<s[1]>> \o JsonDecode(Tail(s))

\* The string literal at index i (s[i] is its opening quote).
ParseString(s, i) ==
    LET e == JsonStringEnd(s, i + 1) IN
    IF e = 0 THEN ParseFail
    ELSE [ok |-> TRUE, val |-> StrVal(JsonDecode(Slice(s, i + 1, e - 1))),
          obj |-> <<>>, next |-> e + 1]

RECURSIVE ParseValue(_, _)
RECURSIVE ParseMembers(_, _, _)
\* The members of an object from index j on (s[j] starts a key), added to obj;
\* a repeated key keeps its last value.
ParseMembers(s, j, obj) ==
    IF j > Len(s) \/ s[j] # Q THEN ParseFail
    ELSE LET k == ParseString(s, j) IN
         IF ~k.ok THEN ParseFail
         ELSE LET c == SkipWs(s, k.next) IN
              IF c > Len(s) \/ s[c] # COLON THEN ParseFail
              ELSE LET val == ParseValue(s, SkipWs(s, c + 1)) IN
                   IF ~val.ok THEN ParseFail
                   ELSE LET m == SkipWs(s, val.next)
                            key == k.val.v
                            obj2 == [x \in (DOMAIN obj) \cup {key} |->
                                        IF x = key THEN val.val ELSE obj[x]]
                        IN IF m > Len(s) THEN ParseFail
                           ELSE IF s[m] = COMMA
                                THEN ParseMembers(s, SkipWs(s, m + 1), obj2)
                           ELSE IF s[m] = RB
                                THEN [ok |-> TRUE, val |-> ObjVal, obj |-> obj2, next |-> m + 1]
                           ELSE ParseFail

\* The value at index i: a string or an object (the tokens hold no digit, no
\* bracket and no literal).
ParseValue(s, i) ==
    IF i > Len(s) THEN ParseFail
    ELSE IF s[i] = Q THEN ParseString(s, i)
    ELSE IF s[i] = LB
         THEN LET j == SkipWs(s, i + 1) IN
              IF j <= Len(s) /\ s[j] = RB
              THEN [ok |-> TRUE, val |-> ObjVal, obj |-> <<>>, next |-> j + 1]
              ELSE ParseMembers(s, j, <<>>)
    ELSE ParseFail

\* JSON.parse(s): ok is FALSE where it throws.
JsonParse(s) ==
    LET r == ParseValue(s, SkipWs(s, 1)) IN
    IF r.ok /\ SkipWs(s, r.next) = Len(s) + 1 THEN r ELSE ParseFail

\* obj.key of a parsed value (undefined when absent or when it is no object).
Field(r, key) ==
    IF r.val.t = "obj" /\ <<key>> \in DOMAIN r.obj THEN r.obj[<<key>>] ELSE Undefined

\* JavaScript truthiness: the empty string and undefined are falsy.
Truthy(v) == v.t \in {"obj", "arr", "rows"} \/ (v.t = "str" /\ v.v # <<>>)

IsString(v) == v.t = "str"

\* `${v}`: the text a value is interpolated as.
ToText(v) == IF v.t \in {"str", "arr", "rows"} THEN v.v
             ELSE IF v.t = "obj" THEN <<"[object Object]">> ELSE <<"undefined">>

(* ------------------------- documentTools.ts --------------------------- *)
\* The document is HTML text: blocks "<p>" text "</p>" and "<h1>" text "</h1>".
POpen == "<p>"
PClose == "</p>"

\* The indices of the "<p>" tokens that a later "</p>" closes, in order:
\* div.querySelectorAll('p').
ParagraphStarts(html) ==
    {i \in 1..Len(html) : html[i] = POpen /\ \E j \in (i + 1)..Len(html) : html[j] = PClose}

\* How a text node is serialised by innerHTML: "<" and ">" are escaped.
EscapeToken(t) ==
    CASE t = POpen -> "&lt;p&gt;"
      [] t = PClose -> "&lt;/p&gt;"
      [] t = "<h1>" -> "&lt;h1&gt;"
      [] t = "</h1>" -> "&lt;/h1&gt;"
      [] t = ThinkOpen -> "&lt;think&gt;"
      [] t = ThinkClose -> "&lt;/think&gt;"
      [] OTHER -> t

EscapeText(s) == [i \in 1..Len(s) |-> EscapeToken(s[i])]

\* replaceParagraph(html, index, newContent), index counted from 0: the text
\* of that paragraph is replaced; a document without it is returned as it is.
replaceParagraph(html, index, newContent) ==
    LET ps == ParagraphStarts(html) IN
    IF index < 0 \/ index >= Cardinality(ps) THEN html
    ELSE LET o == CHOOSE i \in ps : Cardinality({k \in ps : k < i}) = index
             c == Min({j \in (o + 1)..Len(html) : html[j] = PClose})
         IN Slice(html, 1, o) \o EscapeText(newContent) \o Slice(html, c, Len(html))

\* addTitle(html, titleText)
addTitle(html, titleText) == <<"<h1>">> \o titleText \o <<"</h1>">> \o html

\* A failure that carries a document all the same.
FailureWithHtml(msg) ==
    [success |-> FALSE, hasNewHtml |-> TRUE, newHtml |-> <<>>, message |-> msg, thrown |-> FALSE]

Failure(msg) ==
    [success |-> FALSE, hasNewHtml |-> FALSE, newHtml |-> <<>>, message |-> msg, thrown |-> FALSE]

Success(html, msg) ==
    [success |-> TRUE, hasNewHtml |-> TRUE, newHtml |-> html, message |-> msg, thrown |-> FALSE]

\* An Error thrown inside the switch, with its message.
Thrown(msg) ==
    [success |-> FALSE, hasNewHtml |-> FALSE, newHtml |-> <<>>, message |-> msg, thrown |-> TRUE]

\* add_table: headers.forEach and rows.forEach with row.forEach throw a
\* TypeError on what is no array; the table is appended otherwise.
addTable(params, html, summary) ==
    LET headers == Field(params, "headers")
        rows == Field(params, "rows")
        caption == Field(params, "caption")
    IN IF headers.t \notin {"arr", "rows"}
       THEN Thrown(<<"headers.forEach is not a function">>)
       ELSE IF rows.t \notin {"arr", "rows"}
       THEN Thrown(<<"rows.forEach is not a function">>)
       ELSE IF rows.t = "arr" /\ rows.v # <<>>
       THEN Thrown(<<"row.forEach is not a function">>)
       ELSE Success(html \o <<"<table>">>
                         \o (IF Truthy(caption) THEN ToText(caption) ELSE <<>>)
                         \o <<"<thead>">> \o headers.v \o <<"<tbody>">> \o rows.v
                         \o <<"</table>">>,
                    summary)

\* Number(v) - 1 for a paragraph number; -1 stands for NaN (no such paragraph).
ParagraphIndex(v) ==
    IF v.t = "str" /\ v.v = <<"1">> THEN 0
    ELSE IF v.t = "str" /\ v.v = <<"2">> THEN 1
    ELSE IF v.t = "str" /\ v.v = <<"3">> THEN 2
    ELSE -1

\* userSummary || fallback, with userSummary = params.summary || null
SummaryOr(params, fallback) ==
    IF Truthy(Field(params, "summary")) THEN ToText(Field(params, "summary")) ELSE fallback

\* params.new_content || params.text
EditContent(params) ==
    IF Truthy(Field(params, "new_content")) THEN Field(params, "new_content")
    ELSE Field(params, "text")

NoEditContent == <<"No content provided to edit - please specify what to write">>

\* The switch of executeTool: toolName is a value (toolCall.tool), params the
\* parsed tool call.
toolSwitch(toolName, params, html) ==
    LET name == IF toolName.t = "str" THEN toolName.v ELSE <<>>
        text == Field(params, "text")
        content == EditContent(params)
    IN
    CASE name = <<"add_title">> ->
            Success(addTitle(html, ToText(Field(params, "title"))),
                    SummaryOr(params, <<"Added title: ", Q>> \o ToText(Field(params, "title")) \o <<Q>>))
      [] name = <<"edit_first_paragraph">> ->
            IF ~Truthy(content) \/ ~IsString(content) THEN Failure(NoEditContent)
            ELSE Success(replaceParagraph(html, 0, content.v),
                         SummaryOr(params, <<"Updated introduction paragraph">>))
      [] name = <<"edit_last_paragraph">> ->
            IF ~Truthy(content) \/ ~IsString(content) THEN Failure(NoEditContent)
            ELSE Success(replaceParagraph(html, Cardinality(ParagraphStarts(html)) - 1, content.v),
                         SummaryOr(params, <<"Updated conclusion paragraph">>))
      [] name = <<"edit_paragraph">> ->
            IF ~Truthy(content) \/ ~IsString(content) THEN Failure(NoEditContent)
            ELSE Success(replaceParagraph(html, ParagraphIndex(Field(params, "paragraph_number")), content.v),
                         SummaryOr(params, <<"Edited paragraph ">> \o ToText(Field(params, "paragraph_number"))))
      [] name = <<"append_text">> ->
            IF ~Truthy(text) \/ ~IsString(text) THEN Failure(<<"No text provided to append">>)
            ELSE Success(html \o <<POpen>> \o text.v \o <<PClose>>,
                         SummaryOr(params, <<"Appended new text to document">>))
      [] name = <<"prepend_text">> ->
            IF ~Truthy(text) \/ ~IsString(text) THEN Failure(<<"No text provided to prepend">>)
            ELSE Success(<<POpen>> \o text.v \o <<PClose>> \o html,
                         SummaryOr(params, <<"Added text to the beginning">>))
      [] name = <<"add_table">> ->
            addTable(params, html, SummaryOr(params, <<"Added a data table to the document">>))
      [] name = <<"replace_all">> ->
            IF ~Truthy(text) \/ ~IsString(text) THEN Failure(<<"No content provided to replace document">>)
            ELSE Success(text.v, SummaryOr(params, <<"Rewrote the entire document">>))
      [] name = <<"reply">> ->
            [success |-> TRUE, hasNewHtml |-> FALSE, newHtml |-> <<>>,
             message |-> IF Truthy(Field(params, "message")) THEN ToText(Field(params, "message"))
                         ELSE <<"Response generated.">>,
             thrown |-> FALSE]
      [] OTHER -> Failure(<<"Unknown tool: ">> \o ToText(toolName))

\* The switch without the try around it.
executeUncaught(toolName, params, html) == toolSwitch(toolName, params, html)

\* executeTool(toolName, params, html): what the switch throws is caught and
\* returned as a failure.
executeTool(toolName, params, html) ==
    LET r == toolSwitch(toolName, params, html) IN
    IF r.thrown THEN Failure(<<"Tool error: ">> \o r.message) ELSE r

(* ----------------------- the streamed input --------------------------- *)
\* The pre-edit document handed to agenticChatStream.
Doc == <<POpen, "Doc", PClose>>

\* A document with a title and two paragraphs.
TitledDoc == <<"<h1>", "T", "</h1>", POpen, "One", PClose, POpen, "Two", PClose>>

\* Content deltas the model may stream (message.content of one record).
DeltaToolAppendHello ==
    <<LB, Q, "tool", Q, COLON, SP, Q, "append_text", Q, COMMA, SP, Q, "text", Q, COLON, SP, Q, "Hello">>
DeltaWorldDone ==
    <<SP, "world</p>", Q, COMMA, SP, Q, "message", Q, COLON, SP, Q, "done", Q, RB>>
DeltaToolPrependHello ==
    <<LB, Q, "tool", Q, COLON, Q, "prepend_text", Q, COMMA, Q, "text", Q, COLON, Q, "Hello">>
DeltaThoughtReplaceHello ==
    <<LB, Q, "thought", Q, COLON, Q, "why", Q, COMMA, Q, "tool", Q, COLON, Q, "replace_all", Q,
      COMMA, Q, "text", Q, COLON, Q, "Hello">>
DeltaReply ==
    <<LB, Q, "tool", Q, COLON, Q, "reply", Q, COMMA, Q, "message", Q, COLON, Q, "Paris", Q, RB>>
DeltaPlain == <<"The capital of France is Paris.">>
DeltaFenceJson == <<FenceJson>>
DeltaWorldOtherTool ==
    <<SP, "world</p>", Q, COMMA, Q, "tool", Q, COLON, Q, "replace_all", Q, RB>>
DeltaThink == <<ThinkOpen, "why", SP, "not">>
\* A line break before anything else.
DeltaBlank == <<NL>>
\* A complete reply whose message holds braces, followed by more text and a
\* closing fence.
DeltaReplyBraces ==
    <<LB, Q, "tool", Q, COLON, Q, "reply", Q, COMMA, Q, "message", Q, COLON, Q, "use", SP, LB, "x",
      RB, Q, RB, SP, "bye", NL, Fence>>

Deltas ==
    {DeltaToolAppendHello, DeltaWorldDone, DeltaToolPrependHello, DeltaThoughtReplaceHello,
     DeltaReply, DeltaPlain, DeltaFenceJson, DeltaWorldOtherTool, DeltaThink, DeltaReplyBraces,
     DeltaBlank}

\* One NDJSON record of /api/chat: {"message":{"content":..,"thinking":..}}.
\* The closing record {"done":true} carries neither.
Rec(c, t) == [content |-> c, thinking |-> t]

Records ==
    {Rec(d, <<>>) : d \in Deltas} \cup {Rec(<<>>, <<"hm">>), Rec(<<>>, <<>>)}

\* Records the transport may cut in two network chunks.
SplitRecords == {Rec(DeltaWorldDone, <<>>), Rec(<<>>, <<"hm">>)}

\* The raw bytes, in pieces: a whole record, the first or second part of a
\* record cut in two, text that is no JSON, blanks, or a line break.
Piece(k, r) == [kind |-> k, rec |-> r]
NoRec == Rec(<<>>, <<>>)
NLPiece == Piece("nl", NoRec)
BadPiece == Piece("bad", NoRec)
BlankPiece == Piece("ws", NoRec)

\* The network chunks reader.read() may deliver: whole lines, a record whose
\* line break comes with a later chunk, a record cut in two, two lines at once,
\* a line that is no JSON, a blank line.
Chunks ==
    {<<Piece("rec", r), NLPiece>> : r \in Records}
    \cup {<<Piece(k, r)>> : k \in {"rec", "head"}, r \in SplitRecords}
    \cup {<<Piece("tail", r), NLPiece>> : r \in SplitRecords}
    \cup {<<Piece("rec", Rec(DeltaToolAppendHello, <<>>)), NLPiece, Piece("rec", r), NLPiece>> :
              r \in SplitRecords}
    \cup {<<NLPiece>>, <<BadPiece, NLPiece>>, <<BlankPiece, NLPiece>>}
    \cup {<<BadPiece, NLPiece, Piece("rec", Rec(DeltaReply, <<>>)), NLPiece>>}

\* What a chunk counts for in the bound on the length of a stream: the records
\* it starts, and one if it starts none.
Weight(chunk) ==
    LET n == Cardinality({i \in 1..Len(chunk) : chunk[i].kind \in {"rec", "head"}})
    IN IF n = 0 THEN 1 ELSE n

(* ----------------------- agenticChatStream ---------------------------- *)
\* An event handed to onChunk: (response, done).  A response without a
\* thought has the empty thought.
Ev(a, m, t, c, d) == [action |-> a, message |-> m, thought |-> t, content |-> c, done |-> d]

\* accumulatedRaw.split('\n'): the lines before the last line break ...
RECURSIVE SplitLines(_)
SplitLines(raw) ==
    LET nls == {i \in 1..Len(raw) : raw[i].kind = "nl"} IN
    IF nls = {} THEN <<>>
    ELSE <<Slice(raw, 1, Min(nls) - 1)>> \o SplitLines(Slice(raw, Min(nls) + 1, Len(raw)))

\* A buffer emptied after every chunk.
DropPartial(raw) == <<>>

\* ... and lines.pop(), the partial line kept for the next chunk.
LastPartial(raw) ==
    LET nls == {i \in 1..Len(raw) : raw[i].kind = "nl"} IN
    IF nls = {} THEN raw ELSE Slice(raw, Max(nls) + 1, Len(raw))

\* A parse that takes what is no JSON for a record of its own text.
LineParseLenient(line) ==
    IF \E i \in 1..Len(line) : line[i].kind = "bad"
    THEN [ok |-> TRUE, rec |-> [content |-> <<"no json">>, thinking |-> <<>>]]
    ELSE [ok |-> FALSE, rec |-> [content |-> <<>>, thinking |-> <<>>]]

\* JSON.parse(line) of one raw line: the record, or ok = FALSE where it throws.
LineParse(line) ==
    LET body == SelectSeq(line, LAMBDA p : p.kind # "ws") IN
    IF Len(body) = 1 /\ body[1].kind = "rec" THEN [ok |-> TRUE, rec |-> body[1].rec]
    ELSE IF /\ Len(body) = 2
            /\ body[1].kind = "head"
            /\ body[2].kind = "tail"
            /\ body[1].rec = body[2].rec
         THEN [ok |-> TRUE, rec |-> body[1].rec]
    ELSE [ok |-> FALSE, rec |-> NoRec]

IsBlankLine(line) == \A i \in 1..Len(line) : line[i].kind = "ws"

\* The loop over the complete lines: the deltas are appended, and a thinking
\* delta is sent to the caller at once.  A line that does not parse is dropped.
RECURSIVE ProcessLines(_, _, _, _)
ProcessLines(lines, text, thought, evs) ==
    IF lines = <<>> THEN [text |-> text, thought |-> thought, events |-> evs]
    ELSE LET line == Head(lines)
             p == LineParse(line)
         IN IF IsBlankLine(line) \/ ~p.ok
            THEN ProcessLines(Tail(lines), text, thought, evs)
            ELSE LET th == thought \o p.rec.thinking IN
                 ProcessLines(Tail(lines), text \o p.rec.content, th,
                              IF p.rec.thinking # <<>>
                              THEN Append(evs, Ev("none", <<"Thinking...">>, th, <<>>, FALSE))
                              ELSE evs)

ContentTools == {<<"append_text">>, <<"replace_all">>, <<"prepend_text">>}

\* A preview that leaves the pre-edit document out.
ContentOnly(tool, doc, content) == content

\* The document a live preview shows for the content so far.
StreamContent(tool, doc, content) ==
    IF tool = <<"append_text">> THEN doc \o <<NL>> \o content
    ELSE IF tool = <<"prepend_text">> THEN content \o <<NL>> \o doc
    ELSE content

\* The status shown before any JSON is detected.
PreJsonMessage(text) ==
    IF StartsWith(Trim(text), LB) \/ (\E i \in 1..(Len(text) - 2) :
                                         text[i] = Q /\ text[i + 1] = "tool" /\ text[i + 2] = Q)
    THEN <<"Processing...">>
    ELSE IF Trim(text) \in {<<Fence>>, <<"'">>, <<FenceJson>>} THEN <<"Thinking...">>
    ELSE IF StrLen(text) < 50 /\ ~Includes(text, LB) THEN text
    ELSE <<"Generating...">>

\* A flag that follows the text alone and is cleared by the scan after the
\* one that set it.
DetectAfresh(was, text) ==
    ~was /\ (StartsWith(Trim(text), LB) \/ StartsWith(Trim(text), FenceJson))

\* isJsonDetected after a chunk: set once the text starts with "{" or a json
\* fence, and never reset.
DetectJson(was, text) ==
    was \/ StartsWith(Trim(text), LB) \/ StartsWith(Trim(text), FenceJson)

\* A candidate adopted whenever it differs, longer or not.
Differs(candidate, accumulated) == candidate # accumulated

\* if (candidate.length > accumulated.length) accumulated = candidate
Grows(candidate, accumulated) == StrLen(candidate) > StrLen(accumulated)

\* A tool name taken from the rightmost "tool" field on every scan.
RelockTool(detected, text) ==
    LET at == {i \in 1..Len(text) : ToolMatchAt(text, i)} IN
    IF at = {} THEN detected
    ELSE LET v == KeyValueAt(text, Max(at), {"tool"})
             q == Min({k \in (v + 1)..Len(text) : text[k] = Q})
         IN Slice(text, v, q - 1)

\* if (!detectedTool) { toolMatch = ...; if (toolMatch) detectedTool = toolMatch[1] }
LockTool(detected, text) ==
    IF detected # <<>> THEN detected
    ELSE IF MatchTool(text).found THEN MatchTool(text).text ELSE <<>>

\* The scan of the full text after the lines of a chunk are in: think tag,
\* "thought" field, tool name, live content.  st holds the state before it.
ScanText(st, doc) ==
    LET text == st.fullText
        jd == DetectJson(st.isJsonDetected, text)
        tag == MatchThinkTag(text)
        native == Trim(tag.text)
        tagGrew == tag.found /\ Grows(native, st.accumulatedThought)
        th1 == IF tagGrew THEN native ELSE st.accumulatedThought
        lm1 == IF tagGrew
               THEN (IF Includes(text, ThinkClose) THEN <<"Processing response...">>
                     ELSE <<"Thinking...">>)
               ELSE st.lastMessage
        ev1 == IF tagGrew THEN <<Ev("none", lm1, th1, <<>>, FALSE)>> ELSE <<>>
        \* if (isJsonDetected) { ...
        tm == MatchStringField(text, {"thought"})
        cleanThought == Unescape(QuoteSplitFirst(tm.text))
        thGrew == jd /\ tm.found /\ Grows(cleanThought, th1)
        th2 == IF thGrew THEN cleanThought ELSE th1
        ev2 == IF thGrew THEN <<Ev("none", lm1, th2, <<>>, FALSE)>> ELSE <<>>
        dt == IF jd THEN LockTool(st.detectedTool, text) ELSE st.detectedTool
        cm == MatchStringField(text, {"text", "new_content", "replacement_content"})
        cleanContent == Unescape(QuoteSplitFirst(cm.text))
        cGrew == jd /\ dt \in ContentTools /\ cm.found /\ Grows(cleanContent, st.accumulatedContent)
        ac == IF cGrew THEN cleanContent ELSE st.accumulatedContent
        ev3 == IF cGrew
               THEN <<Ev("rewrite", <<"Writing...">>, th2, StreamContent(dt, doc, ac), FALSE)>>
               ELSE <<>>
        \* ... } else { ...
        lmElse == PreJsonMessage(text)
        ev4 == IF jd THEN <<>> ELSE <<Ev("none", lmElse, th1, <<>>, FALSE)>>
    IN [fullText |-> text,
        isJsonDetected |-> jd,
        detectedTool |-> dt,
        accumulatedContent |-> ac,
        accumulatedThought |-> th2,
        lastMessage |-> IF ~jd THEN lmElse ELSE IF cGrew THEN <<"Writing...">> ELSE lm1,
        events |-> ev1 \o ev2 \o ev3 \o ev4]

\* fullText.replace(/^'''json\s*/, '').replace(/\s*'''$/, '')
CleanJson(text) ==
    LET a == IF StartsWith(text, FenceJson) THEN Slice(text, SkipWs(text, 2), Len(text)) ELSE text
    IN IF a # <<>> /\ a[Len(a)] = Fence THEN Slice(a, 1, SkipWsBack(a, Len(a) - 1)) ELSE a

\* A candidate that ends at the first closing brace.
FirstBraceParse(text) ==
    LET c == CleanJson(text)
        braces == {i \in 1..Len(c) : c[i] = RB}
    IN IF braces = {} THEN ParseFail ELSE JsonParse(Slice(c, 1, Min(braces)))

\* cleanJson.substring(0, cleanJson.lastIndexOf('}') + 1), parsed; ok = FALSE
\* when there is no brace or JSON.parse throws.
FinalParse(text) ==
    LET c == CleanJson(text)
        braces == {i \in 1..Len(c) : c[i] = RB}
    IN IF braces = {} THEN ParseFail ELSE JsonParse(Slice(c, 1, Max(braces)))

\* fullText.replace(/'''json/g, '').replace(/'''/g, '')
StripFences(text) == RemoveAll(RemoveAll(text, FenceJson), Fence)

\* The catch of the final parse: the raw text as a plain reply.
ParseFallback(text) ==
    IF Trim(text) # <<>> THEN StripFences(text)
    ELSE <<"Error parsing AI response. Please try again.">>

\* The outcome of the executor run on an empty document.
OutcomeOnBlank(toolCall, doc) ==
    LET result == executeTool(Field(toolCall, "tool"), toolCall, <<>>) IN
    IF result.success
    THEN IF Field(toolCall, "tool") = StrVal(<<"reply">>)
         THEN [action |-> "none", message |-> result.message, content |-> <<>>]
         ELSE [action |-> "rewrite", message |-> result.message,
               content |-> IF result.hasNewHtml /\ result.newHtml # <<>>
                           THEN result.newHtml ELSE doc]
    ELSE [action |-> "none",
          message |-> IF result.message # <<>> THEN result.message
                      ELSE <<"Tool execution failed">>,
          content |-> <<>>]

\* An outcome that takes every successful tool for an edit.
EditOutcome(toolCall, doc) ==
    LET result == executeTool(Field(toolCall, "tool"), toolCall, doc) IN
    IF result.success
    THEN [action |-> "rewrite", message |-> result.message,
          content |-> IF result.hasNewHtml /\ result.newHtml # <<>>
                      THEN result.newHtml ELSE doc]
    ELSE [action |-> "none",
          message |-> IF result.message # <<>> THEN result.message
                      ELSE <<"Tool execution failed">>,
          content |-> <<>>]

\* The outcome of the executor as (lastAction, lastMessage, lastContent).
ToolOutcome(toolCall, doc) ==
    LET result == executeTool(Field(toolCall, "tool"), toolCall, doc) IN
    IF result.success
    THEN IF Field(toolCall, "tool") = StrVal(<<"reply">>)
         THEN [action |-> "none", message |-> result.message, content |-> <<>>]
         ELSE [action |-> "rewrite", message |-> result.message,
               content |-> IF result.hasNewHtml /\ result.newHtml # <<>>
                           THEN result.newHtml ELSE doc]
    ELSE [action |-> "none",
          message |-> IF result.message # <<>> THEN result.message
                      ELSE <<"Tool execution failed">>,
          content |-> <<>>]

\* A catch that throws every error on.
CatchRethrows(errorName) == FALSE

\* catch (error): an AbortError is logged and the call returns; anything else
\* is thrown on to the caller.
CatchReturns(errorName) == errorName = "AbortError"

(* ------------------------------ bounds -------------------------------- *)
\* Records (or chunks without one) a stream may carry.
MaxRecords == 3

(* ------------------------------ state --------------------------------- *)
VARIABLES
    pc,                  \* the await agenticChatStream is at: "idle", "plan",
                         \* "fetch", "read", "import", "returned", "threw"
    aborted,             \* signal.aborted of the send's AbortController
    hasController,       \* abortControllerRef.current is not null
    isChatLoading,       \* the store's isChatLoading
    streamingId,         \* streamingMessageIdRef.current is not null
    canvas,              \* the editor's document (what onDocumentChange set)
    plannerThought,
    fullText, isJsonDetected, detectedTool, accumulatedContent,
    accumulatedThought, lastMessage, accumulatedRaw,
    toolCall,            \* the parsed tool call, while the executor is imported
    emitted,             \* the events the last step handed to onChunk, in order
    prevEv,              \* the last event handed to onChunk before them
    prevPreview,         \* the content of the last event before them that had any
    doneCount,           \* events with done = true so far
    nRecords,            \* records the transport has started
    chunksRead,          \* network chunks processed
    finalParsed,         \* the finalization parse has run
    executed,            \* calls of executeTool
    endOfStream,         \* reader.read() has returned done
    stopSnap,            \* what HandleStopChat saw: chunks read and the canvas
    lastChunk,           \* the network chunk the last turn of the read loop got
    second,              \* a send started after this one was stopped:
                         \* "none" | "running" | "done"
    secondTouched        \* an event of this send has updated the message of
                         \* the second one

VARIABLES
    ckText, ckSize, ckOverlap,   \* chunkText's cleanText, chunkSize, overlap
    ckStart, ckIndex, ckChunks,  \* its start, index and chunks
    ckPc,                        \* "loop" | "done" | "off"
    ckIter,                      \* loop iterations run
    ckSource,                    \* its source argument
    ckSeed,                      \* what crypto.randomUUID draws from in this call
    ckTwin                       \* a second call on the same text, chunkSize and
                                 \* overlap: its seed, start, index and chunks

streamVars == <<pc, aborted, hasController, isChatLoading, streamingId, canvas, plannerThought,
                fullText, isJsonDetected, detectedTool, accumulatedContent, accumulatedThought,
                lastMessage, accumulatedRaw, toolCall, emitted, prevEv, prevPreview,
                doneCount, nRecords, chunksRead, finalParsed, executed, endOfStream, stopSnap,
                lastChunk, second, secondTouched>>

chunkVars == <<ckText, ckSize, ckOverlap, ckStart, ckIndex, ckChunks, ckPc, ckIter,
               ckSource, ckSeed, ckTwin>>

VARIABLES
    rtPc,                \* "off" | "idle" | "plan" | "search" | "done"
    rtCorpus,            \* the chunks of the context documents: text and the
                         \* embedding the model gives that text
    rtHasEmbedModel,     \* embeddingModel is set
    rtUserQuery,         \* the user's message
    rtEmbedding,         \* chunk.embedding of each chunk: set or not, and the value
    rtPlan,              \* what generateSearchQueries returned
    rtCalls,             \* the calls of findRelevantChunks of this round
    rtRequests,          \* embedding requests sent per chunk
    rtWrites,            \* assignments of chunk.embedding per chunk
    rtRound              \* rounds of retrieval started

retrVars == <<rtPc, rtCorpus, rtHasEmbedModel, rtUserQuery, rtEmbedding, rtPlan, rtCalls,
              rtRequests, rtWrites, rtRound>>

\* One call of executeTool on its own: its arguments and what it returned.
VARIABLES
    tlPc,                \* "off" | "call" | "returned" | "threw"
    tlName,              \* toolName
    tlParams,            \* params
    tlHtml,              \* currentHtml
    tlResult             \* the ToolResult returned

toolVars == <<tlPc, tlName, tlParams, tlHtml, tlResult>>

vars == <<streamVars, chunkVars, retrVars, toolVars>>

NoPlan == [outcome |-> "none", queries |-> <<>>, thought |-> <<>>]

RetrieverOff ==
    /\ rtPc = "off" /\ rtCorpus = <<>> /\ rtHasEmbedModel = FALSE /\ rtUserQuery = <<>>
    /\ rtEmbedding = <<>> /\ rtPlan = NoPlan /\ rtCalls = <<>>
    /\ rtRequests = <<>> /\ rtWrites = <<>> /\ rtRound = 0

NoResult == [success |-> FALSE, hasNewHtml |-> FALSE, newHtml |-> <<>>, message |-> <<>>,
             thrown |-> FALSE]

ToolOff ==
    /\ tlPc = "off" /\ tlName = Undefined /\ tlParams = <<>>
    /\ tlHtml = <<>> /\ tlResult = NoResult

NullEv == Ev("none", <<>>, <<>>, <<>>, FALSE)

NoSnap == [stopped |-> FALSE, at |-> "idle", chunks |-> 0, canvas |-> <<>>]

\* Header.tsx, the onChunk callback of handleSendChat: the document an event
\* leaves in the editor.
ApplyEvent(doc, cur, e) ==
    IF e.content = <<>> THEN cur
    ELSE IF e.action = "rewrite" THEN e.content
    ELSE IF e.action = "append" THEN doc \o e.content
    ELSE IF e.action = "edit" THEN e.content
    ELSE cur

RECURSIVE ApplyEvents(_, _, _)
ApplyEvents(doc, cur, evs) ==
    IF evs = <<>> THEN cur ELSE ApplyEvents(doc, ApplyEvent(doc, cur, Head(evs)), Tail(evs))

\* The content of the last event of evs that carries any (or before).
LastContent(evs, before) ==
    LET at == {i \in 1..Len(evs) : evs[i].content # <<>>} IN
    IF at = {} THEN before ELSE evs[Max(at)].content

DoneEvents(evs) == Cardinality({i \in 1..Len(evs) : evs[i].done})

\* onChunk is called with evs, in order; sid is streamingMessageIdRef.current
\* (not null) when the callback runs.
Emit(evs, sid) ==
    /\ emitted' = evs
    /\ prevEv' = IF emitted # <<>> THEN emitted[Len(emitted)] ELSE prevEv
    /\ prevPreview' = LastContent(emitted, prevPreview)
    /\ doneCount' = doneCount + DoneEvents(evs)
    /\ canvas' = IF sid THEN ApplyEvents(Doc, canvas, evs) ELSE canvas
    /\ secondTouched' = (secondTouched \/ (sid /\ second = "running" /\ evs # <<>>))

\* handleSendChat after agenticChatStream has returned: the id is cleared, and
\* the finally block clears the loading flag and the controller.
CallerReturned ==
    /\ pc' = "returned"
    /\ streamingId' = FALSE
    /\ isChatLoading' = FALSE
    /\ hasController' = FALSE

\* handleSendChat after agenticChatStream has thrown: the catch adds an error
\* message, the finally block runs.
CallerCaught ==
    /\ pc' = "threw"
    /\ isChatLoading' = FALSE
    /\ hasController' = FALSE
    /\ UNCHANGED streamingId

\* The status the stream starts with (never empty).
InitialMessage(thought) ==
    IF thought # <<>> THEN <<"Evaluating request... (Thought: ">> \o thought \o <<")">>
    ELSE <<"Thinking...">>

StreamIdle ==
    /\ pc = "idle" /\ aborted = FALSE /\ hasController = FALSE /\ isChatLoading = FALSE
    /\ streamingId = FALSE /\ canvas = Doc /\ plannerThought = <<>>
    /\ fullText = <<>> /\ isJsonDetected = FALSE /\ detectedTool = <<>>
    /\ accumulatedContent = <<>> /\ accumulatedThought = <<>>
    /\ lastMessage = <<>> /\ accumulatedRaw = <<>> /\ toolCall = ParseFail
    /\ emitted = <<>> /\ prevEv = NullEv /\ prevPreview = <<>> /\ doneCount = 0 /\ nRecords = 0
    /\ chunksRead = 0 /\ finalParsed = FALSE /\ executed = 0 /\ endOfStream = FALSE
    /\ stopSnap = NoSnap
    /\ lastChunk = <<>> /\ second = "none" /\ secondTouched = FALSE

ChunkerOff ==
    /\ ckText = <<>> /\ ckSize = 1 /\ ckOverlap = 0 /\ ckStart = 0 /\ ckIndex = 0
    /\ ckChunks = <<>> /\ ckPc = "off" /\ ckIter = 0
    /\ ckSource = "" /\ ckSeed = 0 /\ ckTwin = [seed |-> 0, start |-> 0, index |-> 0, chunks |-> <<>>]

Init == StreamIdle /\ ChunkerOff /\ RetrieverOff /\ ToolOff

\* The request is posted: the locals of the try block are initialised.
PostRequest(thought) ==
    /\ plannerThought' = thought
    /\ lastMessage' = InitialMessage(thought)
    /\ pc' = "fetch"

\* handleSendChat up to the first await of agenticChatStream.
HandleSendChat ==
    /\ pc = "idle" /\ ~isChatLoading
    /\ aborted' = FALSE
    /\ \E hasModel \in BOOLEAN, hasContext \in BOOLEAN :
         IF ~hasModel
         THEN /\ CallerCaught
              /\ Emit(<<Ev("none", <<"Debug: Stream Started">>, <<>>, <<>>, FALSE)>>, TRUE)
              /\ UNCHANGED <<plannerThought, lastMessage>>
         ELSE /\ isChatLoading' = TRUE
              /\ hasController' = TRUE
              /\ streamingId' = TRUE
              /\ IF hasContext
                 THEN /\ pc' = "plan"
                      /\ Emit(<<Ev("none", <<"Debug: Stream Started">>, <<>>, <<>>, FALSE),
                                Ev("none", <<"Debug: Model">>, <<>>, <<>>, FALSE),
                                Ev("none", <<"Debug: Context Prepared">>, <<>>, <<>>, FALSE),
                                Ev("none", <<"Planning research strategy...">>, <<>>, <<>>, FALSE)>>,
                              TRUE)
                      /\ UNCHANGED <<plannerThought, lastMessage>>
                 ELSE /\ PostRequest(<<>>)
                      /\ Emit(<<Ev("none", <<"Debug: Stream Started">>, <<>>, <<>>, FALSE),
                                Ev("none", <<"Debug: Model">>, <<>>, <<>>, FALSE),
                                Ev("none", <<"Debug: No Context Docs">>, <<>>, <<>>, FALSE),
                                Ev("none", InitialMessage(<<>>), <<>>, <<>>, FALSE)>>,
                              TRUE)
    /\ UNCHANGED <<fullText, isJsonDetected, detectedTool, accumulatedContent,
                   accumulatedThought, accumulatedRaw, toolCall, nRecords, chunksRead,
                   finalParsed, executed, endOfStream, stopSnap, lastChunk, second,
                   chunkVars, retrVars, toolVars>>

\* generateSearchQueries and the searches have resolved (neither takes the
\* signal); the request is posted.
PlannerDone ==
    /\ pc = "plan"
    /\ \E thought \in {<<>>, <<"plan">>}, searched \in BOOLEAN :
         /\ PostRequest(thought)
         /\ Emit((IF searched THEN <<Ev("none", <<"Searching for: ">>, <<>>, <<>>, FALSE)>> ELSE <<>>)
                 \o <<Ev("none", InitialMessage(thought), <<>>, <<>>, FALSE)>>, streamingId)
    /\ UNCHANGED <<aborted, hasController, isChatLoading, streamingId,
                   fullText, isJsonDetected, detectedTool, accumulatedContent,
                   accumulatedThought, accumulatedRaw, toolCall, nRecords, chunksRead,
                   finalParsed, executed, endOfStream, stopSnap, lastChunk, second,
                   chunkVars, retrVars, toolVars>>

\* fetch resolves with a 2xx response and a body.
FetchResolve ==
    /\ pc = "fetch" /\ ~aborted
    /\ pc' = "read"
    /\ Emit(<<>>, streamingId)
    /\ UNCHANGED <<aborted, hasController, isChatLoading, streamingId, plannerThought,
                   fullText, isJsonDetected, detectedTool, accumulatedContent,
                   accumulatedThought, lastMessage, accumulatedRaw, toolCall, nRecords,
                   chunksRead, finalParsed, executed, endOfStream, stopSnap, lastChunk, second,
                   chunkVars, retrVars, toolVars>>

\* An await of the try block rejects: fetch (unreachable, not 2xx, no body),
\* reader.read() (transport error), or either with an AbortError once the
\* signal is aborted.
Rejects ==
    /\ pc \in {"fetch", "read"}
    /\ IF CatchReturns(IF aborted THEN "AbortError" ELSE "Error")
       THEN CallerReturned ELSE CallerCaught
    /\ Emit(<<>>, streamingId)
    /\ UNCHANGED <<aborted, plannerThought,
                   fullText, isJsonDetected, detectedTool, accumulatedContent,
                   accumulatedThought, lastMessage, accumulatedRaw, toolCall, nRecords,
                   chunksRead, finalParsed, executed, endOfStream, stopSnap, lastChunk, second,
                   chunkVars, retrVars, toolVars>>

\* One turn of the read loop: a network chunk is decoded, its complete lines
\* are parsed, the full text is scanned and the events are sent.
ReadChunk ==
    /\ pc = "read" /\ ~aborted
    /\ \E chunk \in Chunks :
         /\ nRecords + Weight(chunk) <= MaxRecords
         /\ nRecords' = nRecords + Weight(chunk)
         /\ lastChunk' = chunk
         /\ LET raw == accumulatedRaw \o chunk
                p == ProcessLines(SplitLines(raw), fullText, accumulatedThought, <<>>)
                r == ScanText([fullText |-> p.text,
                               isJsonDetected |-> isJsonDetected,
                               detectedTool |-> detectedTool,
                               accumulatedContent |-> accumulatedContent,
                               accumulatedThought |-> p.thought,
                               lastMessage |-> lastMessage], Doc)
            IN /\ accumulatedRaw' = LastPartial(raw)
               /\ fullText' = r.fullText
               /\ isJsonDetected' = r.isJsonDetected
               /\ detectedTool' = r.detectedTool
               /\ accumulatedContent' = r.accumulatedContent
               /\ accumulatedThought' = r.accumulatedThought
               /\ lastMessage' = r.lastMessage
               /\ Emit(p.events \o r.events, streamingId)
    /\ chunksRead' = chunksRead + 1
    /\ UNCHANGED <<pc, aborted, hasController, isChatLoading, streamingId, plannerThought,
                   toolCall, finalParsed, executed, endOfStream, stopSnap, second,
                   chunkVars, retrVars, toolVars>>

\* A reply that keeps the last status instead of the text.
StatusOutcome(text) == [action |-> "none", message |-> PreJsonMessage(text), content |-> <<>>]

\* The stream was no JSON: the text is the reply.
PlainOutcome(text) == [action |-> "none", message |-> text, content |-> <<>>]

\* A last event sent without the done flag.
InterimFlush(action, message, thought, content) ==
    <<Ev(action, message, thought, content, FALSE)>>

\* The final flush: onChunk({action, message, thought, content}, true).
FinalFlush(action, message, thought, content) ==
    <<Ev(action, message, thought, content, TRUE)>>

\* reader.read() returns done: the loop ends and the text is finalized.  A
\* stream that was no JSON, or whose JSON does not parse, is flushed here; a
\* parsed tool call waits for the import of the executor.
ReadDone ==
    /\ pc = "read" /\ ~aborted
    /\ endOfStream' = TRUE
    /\ IF ~isJsonDetected
       THEN /\ CallerReturned
            /\ LET o == PlainOutcome(fullText) IN
                 /\ Emit(FinalFlush(o.action, o.message, accumulatedThought, o.content), streamingId)
                 /\ lastMessage' = o.message
            /\ UNCHANGED <<toolCall, finalParsed>>
       ELSE /\ finalParsed' = TRUE
            /\ IF FinalParse(fullText).ok
               THEN /\ toolCall' = FinalParse(fullText)
                    /\ pc' = "import"
                    /\ Emit(<<>>, streamingId)
                    /\ UNCHANGED <<lastMessage, streamingId, isChatLoading, hasController>>
               ELSE /\ CallerReturned
                    /\ Emit(FinalFlush("none", ParseFallback(fullText), accumulatedThought, <<>>),
                            streamingId)
                    /\ lastMessage' = ParseFallback(fullText)
                    /\ UNCHANGED toolCall
    /\ UNCHANGED <<aborted, plannerThought, fullText, isJsonDetected, detectedTool,
                   accumulatedContent, accumulatedThought, accumulatedRaw, nRecords,
                   chunksRead, executed, stopSnap, lastChunk, second,
                   chunkVars, retrVars, toolVars>>

\* The executor is imported and run on the pre-edit document; the final event
\* is sent.
Finalize ==
    /\ pc = "import"
    /\ LET o == ToolOutcome(toolCall, Doc) IN
         /\ Emit(FinalFlush(o.action, o.message, accumulatedThought, o.content), streamingId)
         /\ lastMessage' = o.message
    /\ executed' = executed + 1
    /\ CallerReturned
    /\ UNCHANGED <<aborted, plannerThought, fullText, isJsonDetected, detectedTool,
                   accumulatedContent, accumulatedThought, accumulatedRaw, toolCall, nRecords,
                   chunksRead, finalParsed, endOfStream, stopSnap, lastChunk, second,
                   chunkVars, retrVars, toolVars>>

\* handleStopChat, between two steps of the stream.
HandleStopChat ==
    /\ pc \in {"plan", "fetch", "read", "import"}
    /\ hasController /\ second = "none"
    /\ aborted' = TRUE
    /\ hasController' = FALSE
    /\ isChatLoading' = FALSE
    /\ streamingId' = FALSE
    /\ stopSnap' = [stopped |-> TRUE, at |-> pc, chunks |-> chunksRead, canvas |-> canvas]
    /\ UNCHANGED <<pc, canvas, plannerThought, fullText, isJsonDetected, detectedTool,
                   accumulatedContent, accumulatedThought, lastMessage, accumulatedRaw,
                   toolCall, emitted, prevEv, prevPreview, doneCount, nRecords, chunksRead,
                   finalParsed, executed, endOfStream, lastChunk, second, secondTouched,
                   chunkVars, retrVars, toolVars>>

\* handleSendChat once more, after the stop and while the stopped send has
\* not yet come back from its await: the loading flag is false again, so the
\* guard passes; the flag, the controller and the message id are set anew.
SendAgain ==
    /\ pc \in {"plan", "fetch", "read", "import"}
    /\ stopSnap.stopped /\ ~isChatLoading /\ second = "none"
    /\ second' = "running"
    /\ isChatLoading' = TRUE
    /\ hasController' = TRUE
    /\ streamingId' = TRUE
    /\ UNCHANGED <<pc, aborted, canvas, plannerThought, fullText, isJsonDetected, detectedTool,
                   accumulatedContent, accumulatedThought, lastMessage, accumulatedRaw,
                   toolCall, emitted, prevEv, prevPreview, doneCount, nRecords, chunksRead,
                   finalParsed, executed, endOfStream, stopSnap, lastChunk, secondTouched,
                   chunkVars, retrVars, toolVars>>

\* The second send comes back: its own id, flag and controller are cleared.
SecondReturned ==
    /\ second = "running"
    /\ second' = "done"
    /\ isChatLoading' = FALSE
    /\ hasController' = FALSE
    /\ streamingId' = FALSE
    /\ UNCHANGED <<pc, aborted, canvas, plannerThought, fullText, isJsonDetected, detectedTool,
                   accumulatedContent, accumulatedThought, lastMessage, accumulatedRaw,
                   toolCall, emitted, prevEv, prevPreview, doneCount, nRecords, chunksRead,
                   finalParsed, executed, endOfStream, stopSnap, lastChunk, secondTouched,
                   chunkVars, retrVars, toolVars>>

StreamNext ==
    \/ HandleSendChat
    \/ PlannerDone
    \/ FetchResolve
    \/ Rejects
    \/ ReadChunk
    \/ ReadDone
    \/ Finalize
    \/ HandleStopChat
    \/ SendAgain
    \/ SecondReturned

Spec == Init /\ [][StreamNext]_vars
(* ------------------------------ claims -------------------------------- *)
\* The events so far that matter to the next one: the last one before this
\* step, then this step's.
Recent == <<prevEv>> \o emitted

FinalEvent == emitted[Len(emitted)]

\* The stream was read to its end and the final event has been sent.
Completed == pc = "returned" /\ endOfStream /\ emitted # <<>> /\ FinalEvent.done

\* C1: the length of the thought carried by successive events never
\* decreases, the final done=true event included.
C1_ThoughtNeverShrinks ==
    \A i \in 1..(Len(Recent) - 1) :
        StrLen(Recent[i].thought) <= StrLen(Recent[i + 1].thought)

\* A thought that was already shown has grown in the next event.
C1_Witness ==
    /\ emitted # <<>>
    /\ prevEv.thought # <<>>
    /\ StrLen(emitted[1].thought) > StrLen(prevEv.thought)
    /\ accumulatedThought = <<"why">>

\* C2 as stated: the content of successive events never decreases in length
\* while the stream is open.
C2_EveryEventContentGrows ==
    \A i \in 1..(Len(Recent) - 1) :
        ~Recent[i + 1].done => StrLen(Recent[i].content) <= StrLen(Recent[i + 1].content)

\* C2 amended: among the events of the open stream that carry content (the
\* live previews), the content never decreases in length from one to the next;
\* an event without content (a status or thought update) shows no content.
C2_PreviewNeverShrinks ==
    \A i \in 1..Len(emitted) :
        (~emitted[i].done /\ emitted[i].content # <<>>) =>
            StrLen(LastContent(SubSeq(emitted, 1, i - 1), prevPreview))
                <= StrLen(emitted[i].content)

\* A preview that follows a shorter preview.
C2_Witness ==
    /\ emitted # <<>>
    /\ ~FinalEvent.done
    /\ prevPreview # <<>>
    /\ StrLen(FinalEvent.content) > StrLen(prevPreview)

\* C3: once detected, the tool name is kept for the rest of the stream.
C3_ToolLocked == [][detectedTool # <<>> => detectedTool' = detectedTool]_vars

\* The tool is locked and the text now holds a "tool" field with another name.
C3_Witness ==
    /\ detectedTool = <<"append_text">>
    /\ \E i \in 1..Len(fullText) :
          /\ ToolMatchAt(fullText, i)
          /\ fullText[KeyValueAt(fullText, i, {"tool"})] = "replace_all"

\* C4: a run that reads its stream to the end sends exactly one done=true
\* event, and it is the last event; every earlier event has done=false.
C4_ExactlyOneDoneLast ==
    /\ doneCount <= 1
    /\ \A i \in 1..Len(emitted) : emitted[i].done => i = Len(emitted)
    /\ doneCount = 1 => (emitted # <<>> /\ FinalEvent.done)
    /\ (pc = "returned" /\ endOfStream) => doneCount = 1

\* A stream read to its end whose tool call went through the executor.
C4_Witness == Completed /\ executed = 1 /\ chunksRead > 1 /\ ~prevEv.done

\* The stream was cancelled while its request was in flight (before the
\* reader reported the end of the stream).
CancelledInFlight == stopSnap.stopped /\ stopSnap.at \in {"plan", "fetch", "read"}

\* C5: after a cancellation in flight no chunk is processed, the final parse
\* and the executor do not run, the document stays as it was, no final event
\* is sent and the call does not throw.
C5_CancelStopsQuietly ==
    CancelledInFlight =>
        /\ chunksRead = stopSnap.chunks
        /\ ~finalParsed
        /\ executed = 0
        /\ canvas = stopSnap.canvas
        /\ doneCount = 0
        /\ pc # "threw"

\* A stream cancelled after a live preview has returned; the preview stays.
C5_Witness ==
    /\ CancelledInFlight
    /\ stopSnap.at = "read"
    /\ pc = "returned"
    /\ chunksRead > 0
    /\ canvas # Doc

\* The final parse of a JSON-detected stream failed and text was accumulated.
FinalParseFailed ==
    Completed /\ isJsonDetected /\ ~FinalParse(fullText).ok /\ Trim(fullText) # <<>>

\* C6: after a failed final parse the final event is a plain reply with the
\* accumulated text, fences stripped, as its message, and it has a message.
C6_FallbackReplyHasMessage ==
    FinalParseFailed =>
        /\ FinalEvent.action = "none"
        /\ FinalEvent.content = <<>>
        /\ FinalEvent.message = StripFences(fullText)
        /\ FinalEvent.message # <<>>

\* No event so far carried document content.
NoContentSent == prevPreview = <<>> /\ \A i \in 1..Len(emitted) : emitted[i].content = <<>>

IsPreview(e) == e.action = "rewrite" /\ ~e.done

\* C8 as stated: append shows original, newline, content; prepend shows the
\* content followed by the original; replace_all the content alone.
C8_PreviewAsStated ==
    \A i \in 1..Len(emitted) :
        IsPreview(emitted[i]) =>
            emitted[i].content =
                (IF detectedTool = <<"append_text">> THEN Doc \o <<NL>> \o accumulatedContent
                 ELSE IF detectedTool = <<"prepend_text">> THEN accumulatedContent \o Doc
                 ELSE accumulatedContent)

\* C8 amended: for prepend_text the preview is the content, a newline and
\* the original.
C8_PreviewIsWholeDocument ==
    \A i \in 1..Len(emitted) :
        IsPreview(emitted[i]) =>
            /\ detectedTool \in ContentTools
            /\ emitted[i].content =
                (IF detectedTool = <<"append_text">> THEN Doc \o <<NL>> \o accumulatedContent
                 ELSE IF detectedTool = <<"prepend_text">>
                      THEN accumulatedContent \o <<NL>> \o Doc
                 ELSE accumulatedContent)

\* Scenario A: the second preview, original + "\nHello world</p>".
C8_Witness ==
    /\ emitted # <<>>
    /\ IsPreview(FinalEvent)
    /\ FinalEvent.content = Doc \o <<NL, "Hello", SP, "world</p>">>
    /\ prevPreview = Doc \o <<NL, "Hello">>

\* C9: a completed edit tool call that carries a "message" ends in a final
\* event that applies the tool and whose message is that message.
C9_FinalMessageIsToolMessage ==
    (/\ Completed
     /\ executed = 1
     /\ Field(toolCall, "tool") = StrVal(<<"append_text">>)
     /\ IsString(Field(toolCall, "text")) /\ Truthy(Field(toolCall, "text"))
     /\ IsString(Field(toolCall, "message")) /\ Truthy(Field(toolCall, "message")))
    => /\ FinalEvent.action = "rewrite"
       /\ FinalEvent.content = Doc \o <<POpen>> \o Field(toolCall, "text").v \o <<PClose>>
       /\ FinalEvent.message = Field(toolCall, "message").v

(* ------------------------------ chunkText ----------------------------- *)
\* textChunker.ts works on characters: here a text is a sequence of
\* one-character strings, indexed from 0 as in the source (s[i + 1]).
MaxTextLen == 5
MaxChunkSize == 4
MaxOverlap == 3
MaxIter == 6

Chars == {"a", " ", ".", "?"}

Texts == UNION {[1..n -> Chars] : n \in 0..MaxTextLen}

ChunkSizes == 1..MaxChunkSize

Overlaps == -1..MaxOverlap

\* text.replace(/\s+/g, ' ').trim(): the spaces that follow a space go, and
\* so do the ones at the ends.
RECURSIVE CollapseSpaces(_)
CollapseSpaces(s) ==
    IF Len(s) < 2 THEN s
    ELSE IF s[1] = " " /\ s[2] = " " THEN CollapseSpaces(Tail(s))
    ELSE <<s[1]>> \o CollapseSpaces(Tail(s))

RECURSIVE TrimSpaces(_)
TrimSpaces(s) ==
    IF s = <<>> THEN s
    ELSE IF s[1] = " " THEN TrimSpaces(Tail(s))
    ELSE IF s[Len(s)] = " " THEN TrimSpaces(SubSeq(s, 1, Len(s) - 1))
    ELSE s

\* A text taken as it comes.
KeepText(text) == text

CleanText(text) == TrimSpaces(CollapseSpaces(text))

\* String.prototype.lastIndexOf(ch, from): the largest index <= from (from
\* clamped to 0..length) that holds ch, or -1.
LastIndexOf(s, ch, from) ==
    LET at == {i \in 0..Min({Max({from, 0}), Len(s) - 1}) : s[i + 1] = ch} IN
    IF at = {} THEN -1 ELSE Max(at)

\* String.prototype.slice(from, to): a negative index counts from the end.
SliceJs(s, from, to) ==
    LET rel(k) == IF k < 0 THEN Max({Len(s) + k, 0}) ELSE Min({k, Len(s)})
    IN SubSeq(s, rel(from) + 1, rel(to))

\* A window cut at a space or at its full size, whatever the punctuation.
WindowEndAtSpace(cleanText, start, chunkSize) ==
    LET end == start + chunkSize
        lastSpace == LastIndexOf(cleanText, " ", end)
    IN IF end < Len(cleanText) /\ lastSpace # -1 /\ lastSpace > start THEN lastSpace ELSE end

\* The end of the window that starts at start: a sentence end past the middle
\* of the window, else the last space after start, else the full window.
WindowEnd(cleanText, start, chunkSize) ==
    LET end == start + chunkSize
        lastPunctuation == Max({LastIndexOf(cleanText, ".", end),
                                LastIndexOf(cleanText, "?", end),
                                LastIndexOf(cleanText, "!", end)})
        lastSpace == LastIndexOf(cleanText, " ", end)
    IN IF end < Len(cleanText)
       THEN IF lastPunctuation # -1 /\ 2 * lastPunctuation > 2 * start + chunkSize
            THEN lastPunctuation + 1
            ELSE IF lastSpace # -1 /\ lastSpace > start THEN lastSpace ELSE end
       ELSE end

\* start = end - overlap; if (start >= end) start = end
NextStart(end, overlap) == IF end - overlap >= end THEN end ELSE end - overlap

\* crypto.randomUUID() differs from call to call: an id is the seed of the
\* call and the count of the ids the call has drawn.
Seeds == {1, 2}

\* A chunk whose index follows its id.
ChunkStamped(text, source, index, id) ==
    [id |-> id, text |-> text, source |-> source, index |-> index + id[1] - 1]

\* chunks.push({ id: crypto.randomUUID(), text: chunkText, source, index })
ChunkRecord(text, source, index, id) ==
    [id |-> id, text |-> text, source |-> source, index |-> index]

\* The loop body on the locals st of a call with seed st.seed.
LoopBody(st, cleanText, chunkSize, overlap, source) ==
    LET end == WindowEnd(cleanText, st.start, chunkSize)
        chunk == TrimSpaces(SliceJs(cleanText, st.start, end))
    IN [seed |-> st.seed,
        start |-> NextStart(end, overlap),
        index |-> IF chunk # <<>> THEN st.index + 1 ELSE st.index,
        chunks |-> IF chunk # <<>>
                   THEN Append(st.chunks, ChunkRecord(chunk, source, st.index, <<st.seed, st.index>>))
                   ELSE st.chunks]

\* The inputs of a call of chunkText.
ChunkInit ==
    /\ StreamIdle
    /\ RetrieverOff /\ ToolOff
    /\ ckText \in Texts /\ ckSize \in ChunkSizes /\ ckOverlap \in Overlaps
    /\ ckStart = 0 /\ ckIndex = 0 /\ ckChunks = <<>> /\ ckPc = "call" /\ ckIter = 0
    /\ ckSource = "notes.txt"
    /\ ckSeed \in Seeds
    /\ ckTwin \in [seed : Seeds, start : {0}, index : {0}, chunks : {<<>>}]

\* chunkText up to its loop: the text is cleaned; an empty one returns [].
ChunkCall ==
    /\ ckPc = "call"
    /\ ckText' = CleanText(ckText)
    /\ ckPc' = IF CleanText(ckText) = <<>> THEN "done" ELSE "loop"
    /\ UNCHANGED <<ckSize, ckOverlap, ckStart, ckIndex, ckChunks, ckIter, ckSource, ckSeed, ckTwin,
                   streamVars, retrVars, toolVars>>

\* One iteration of the while loop.
ChunkStep ==
    /\ ckPc = "loop" /\ ckStart < Len(ckText)
    /\ ckIter < MaxIter
    /\ LET st == LoopBody([seed |-> ckSeed, start |-> ckStart, index |-> ckIndex,
                           chunks |-> ckChunks], ckText, ckSize, ckOverlap, ckSource)
       IN /\ ckChunks' = st.chunks
          /\ ckIndex' = st.index
          /\ ckStart' = st.start
    /\ ckTwin' = IF ckTwin.start < Len(ckText)
                 THEN LoopBody(ckTwin, ckText, ckSize, ckOverlap, ckSource) ELSE ckTwin
    /\ ckIter' = ckIter + 1
    /\ UNCHANGED <<ckText, ckSize, ckOverlap, ckPc, ckSource, ckSeed, streamVars, retrVars, toolVars>>

\* The loop condition fails: the chunks are returned.
ChunkReturn ==
    /\ ckPc = "loop" /\ ckStart >= Len(ckText)
    /\ ckPc' = "done"
    /\ UNCHANGED <<ckText, ckSize, ckOverlap, ckStart, ckIndex, ckChunks, ckIter, ckSource, ckSeed,
                   ckTwin, streamVars, retrVars, toolVars>>

ChunkNext ==
    \/ ChunkCall
    \/ ChunkStep
    \/ ChunkReturn

SpecChunk == ChunkInit /\ [][ChunkNext]_vars

\* C10: every iteration of chunkText's loop moves the window start strictly
\* forward, whatever the text, the chunk size and the overlap.
C10_StartMovesForward == [][ChunkStep => ckStart' > ckStart]_vars

\* chunkText has returned.
ChunkDone == ckPc = "done"

\* The texts that merging the chunks in order can give, where a chunk is
\* joined to what precedes it after the removal of a head of the chunk that
\* repeats the tail of what precedes it (the overlap region, possibly empty).
RECURSIVE Reassemblies(_, _)
Reassemblies(acc, chunks) ==
    IF chunks = <<>> THEN {acc}
    ELSE LET c == Head(chunks).text
             ks == {k \in 0..Min({Len(c), Len(acc)}) :
                        SubSeq(c, 1, k) = SubSeq(acc, Len(acc) - k + 1, Len(acc))}
         IN UNION {Reassemblies(acc \o SubSeq(c, k + 1, Len(c)), Tail(chunks)) : k \in ks}

\* C11 as stated: the chunks, with their overlap regions removed, give back
\* the normalized text, whatever the chunk size and the overlap.
C11_ChunksRebuildText == ChunkDone => ckText \in Reassemblies(<<>>, ckChunks)

\* C12: no chunk has an empty text, the index values are 0, 1, 2, ... in
\* order, and an empty or whitespace-only text yields no chunk.
C12_ChunksIndexedNotEmpty ==
    /\ [](\A k \in 1..Len(ckChunks) :
             /\ ckChunks[k].text # <<>>
             /\ ckChunks[k].index = k - 1)
    /\ [][(ChunkCall /\ \A i \in 1..Len(ckText) : ckText[i] = " ")
              => (ckPc' = "done" /\ ckChunks' = <<>>)]_vars
    /\ []((ChunkDone /\ ckText = <<>>) => ckChunks = <<>>)

\* A call that returned three chunks.
C12_Witness == ChunkDone /\ Len(ckChunks) = 3 /\ ckChunks[3].index = 2

(* ------------------------------ retrieval ----------------------------- *)
\* A text is a sequence of words here, a query too; an embedding is a vector
\* of integers, <<>> for the empty array that generateEmbedding returns when
\* the request fails.
TopK == 5

\* String.prototype.toLowerCase, on the words in use.
Lower(w) ==
    CASE w = "Summarize" -> "summarize"
      [] w = "Rust" -> "rust"
      [] OTHER -> w

LowerAll(ws) == [i \in 1..Len(ws) |-> Lower(ws[i])]

\* generalQueryPatterns.some(p => p.test(query)) || forceReturnSamples: the
\* patterns are case-insensitive.
GeneralWords == {"summarize", "summary", "document", "explain"}

IsGeneralQuery(query, forceReturnSamples) ==
    forceReturnSamples \/ \E i \in 1..Len(query) : Lower(query[i]) \in GeneralWords

\* text.includes(sub) for texts of whole words: sub is a run of the words.
IncludesWords(text, sub) ==
    \E i \in 0..(Len(text) - Len(sub)) : SubSeq(text, i + 1, i + Len(sub)) = sub

\* A keyword score without the five for the whole query.
ScoreWithoutBonus(text, query) ==
    LET lower == LowerAll(text)
        words == LowerAll(query)
        terms == {i \in 1..Len(words) : Len(words[i]) > 3}
    IN Cardinality({i \in terms : IncludesWords(lower, <<words[i]>>)})

\* The keyword score of a chunk: one for each term of the query (a word of
\* more than three characters) the text holds, five more when it holds the
\* whole query.
KeywordScore(text, query) ==
    LET lower == LowerAll(text)
        words == LowerAll(query)
        terms == {i \in 1..Len(words) : Len(words[i]) > 3}
    IN Cardinality({i \in terms : IncludesWords(lower, <<words[i]>>)})
       + (IF IncludesWords(lower, words) THEN 5 ELSE 0)

Dot(a, b) == IF Len(a) = 2 THEN a[1] * b[1] + a[2] * b[2] ELSE 0

\* cosineSimilarity(a, b) > 0.3.  Vectors of different lengths or of length 0
\* score 0; a vector of zeros gives NaN, which is above nothing.
CosineAboveThreshold(a, b) ==
    /\ Len(a) = Len(b) /\ Len(a) # 0
    /\ Dot(a, a) > 0 /\ Dot(b, b) > 0
    /\ Dot(a, b) > 0
    /\ 100 * Dot(a, b) * Dot(a, b) > 9 * Dot(a, a) * Dot(b, b)

\* cosineSimilarity(q, a) > cosineSimilarity(q, b), for two vectors that are
\* both above the threshold.
CosineGreater(q, a, b) == Dot(q, a) * Dot(q, a) * Dot(b, b) > Dot(q, b) * Dot(q, b) * Dot(a, a)

\* The members of S by descending score, all of them.
AllSorted(S, better) ==
    LET rank(i) == Cardinality({j \in S : <<j, i>> \in better
                                            \/ (<<i, j>> \notin better /\ j < i)})
    IN [k \in 1..Cardinality(S) |-> CHOOSE i \in S : rank(i) = k - 1]

\* .sort((a, b) => b.score - a.score).slice(0, 5): the members of S by
\* descending score, the sort being stable; <<i, j>> is in better when i
\* scores more than j.
TopSorted(S, better) ==
    LET rank(i) == Cardinality({j \in S : <<j, i>> \in better
                                            \/ (<<i, j>> \notin better /\ j < i)})
        n == Min({Cardinality(S), TopK})
    IN [k \in 1..n |-> CHOOSE i \in S : rank(i) = k - 1]

\* The first maxChunks chunks.
firstSamples(n, maxChunks) == [k \in 1..Min({n, maxChunks}) |-> k]

\* getRepresentativeSamples(maxChunks) over n chunks: all of them when they
\* are at most maxChunks, else every step-th from the first, maxChunks of them.
getRepresentativeSamples(n, maxChunks) ==
    IF n <= maxChunks THEN [k \in 1..n |-> k]
    ELSE LET step == n \div maxChunks
             count == Min({maxChunks, (n + step - 1) \div step})
         IN [k \in 1..count |-> (k - 1) * step + 1]

\* The keyword path of findRelevantChunks over the chunk texts.
KeywordHits(texts, query) ==
    LET n == Len(texts) IN
    TopSorted({i \in 1..n : KeywordScore(texts[i], query) > 0},
              {p \in (1..n) \X (1..n) :
                  KeywordScore(texts[p[1]], query) > KeywordScore(texts[p[2]], query)})

\* The vector path with every chunk of a positive similarity as a hit.
VectorHitsAboveZero(vecs, queryEmbedding) ==
    LET n == Len(vecs)
        positive == {i \in 1..n : Len(vecs[i]) = 2 /\ Dot(queryEmbedding, vecs[i]) > 0}
    IN TopSorted(positive,
                 {p \in positive \X positive :
                     CosineGreater(queryEmbedding, vecs[p[1]], vecs[p[2]])})

\* The vector path over the embeddings a call has seen.
VectorHits(vecs, queryEmbedding) ==
    LET n == Len(vecs) IN
    TopSorted({i \in 1..n : CosineAboveThreshold(queryEmbedding, vecs[i])},
              {p \in (1..n) \X (1..n) :
                  CosineGreater(queryEmbedding, vecs[p[1]], vecs[p[2]])})

\* What findRelevantChunks returns for its filtered hits.
HitsOrSamples(filtered, n, general) ==
    IF filtered = <<>> /\ general THEN getRepresentativeSamples(n, TopK) ELSE filtered

(* ------------------- the planner and the orchestrator ------------------ *)
MaxMixed == 2
MaxChunks == 11
MaxRounds == 2

\* The chunks a corpus is made of: text and the embedding of that text.
Strong == [text |-> <<"Rust", "lifetimes", "explained">>, vec |-> <<2, 1>>]
Faint == [text |-> <<"lifetimes", "rust", "cat">>, vec |-> <<1, 10>>]
Aside == [text |-> <<"lifetimes", "lifetimes", "lifetimes">>, vec |-> <<1, 0>>]

ChunkKinds == {Strong, Faint, Aside}

\* The corpora: every mix of up to MaxMixed chunks, and longer ones of one kind.
Corpora ==
    UNION {[1..n -> ChunkKinds] : n \in 0..MaxMixed}
    \cup {[i \in 1..n |-> k] : n \in (TopK + 1)..MaxChunks, k \in {Strong, Aside}}

Queries == {<<"Summarize", "this">>, <<"rust", "lifetimes">>, <<"cat">>}

\* The embedding the model gives a query.
QueryVec(query) ==
    IF query = <<"rust", "lifetimes">> THEN <<1, 0>> ELSE <<0, 1>>

\* What the planner's model can ask to search for.
Plans(userQuery) == {<<>>, <<userQuery>>, <<userQuery, <<"cat">>>>}

PlannerOutcomes == {"noModel", "unreachable", "non2xx", "badBody", "badJson", "ok"}

\* generateSearchQueries(userQuery, docSummary) by the outcome of its request:
\* no model selected, fetch rejected, a status that is not 2xx, a body that is
\* no JSON, a response field that is no JSON, or a parsed plan.
generateSearchQueries(outcome, userQuery, planned) ==
    CASE outcome \in {"noModel", "non2xx"} ->
            [outcome |-> outcome, queries |-> <<>>, thought |-> <<>>]
      [] outcome \in {"unreachable", "badBody", "badJson"} ->
            [outcome |-> outcome, queries |-> <<userQuery>>,
             thought |-> <<"Planner failed, falling back to direct query.">>]
      [] OTHER ->
            [outcome |-> outcome, queries |-> planned, thought |-> <<"plan">>]

ChunkTexts(corpus) == [i \in 1..Len(corpus) |-> corpus[i].text]

\* The end of a call: the hits, or the samples of a general query without any.
CallDone(call, filtered, n) ==
    [call EXCEPT !.pc = "done",
                 !.result = HitsOrSamples(filtered, n, IsGeneralQuery(call.query, call.force))]

\* A call that asks for the embedding of its query with or without a model.
StartCallAlwaysEmbeds(query, force, corpus, hasEmbedModel) ==
    LET call == [query |-> query, force |-> force, pc |-> "query", qvec |-> <<>>,
                 pending |-> {}, got |-> [i \in 1..Len(corpus) |-> <<>>], result |-> <<>>]
    IN IF corpus = <<>> THEN [call EXCEPT !.pc = "done"] ELSE call

\* findRelevantChunks(query, forceReturnSamples) up to its first await.
StartCall(query, force, corpus, hasEmbedModel) ==
    LET call == [query |-> query, force |-> force, pc |-> "query", qvec |-> <<>>,
                 pending |-> {}, got |-> [i \in 1..Len(corpus) |-> <<>>], result |-> <<>>]
    IN IF corpus = <<>> THEN [call EXCEPT !.pc = "done"]
       ELSE IF hasEmbedModel THEN call
       ELSE CallDone(call, KeywordHits(ChunkTexts(corpus), query), Len(corpus))

\* A fresh corpus: the chunks of a short corpus hold no embedding yet, those
\* of a long one hold theirs from an earlier retrieval.
RetrieveInit ==
    /\ StreamIdle /\ ChunkerOff /\ ToolOff
    /\ rtPc = "idle"
    /\ rtCorpus \in Corpora
    /\ rtHasEmbedModel \in BOOLEAN
    /\ rtUserQuery \in Queries
    /\ rtEmbedding = [i \in 1..Len(rtCorpus) |->
                        IF Len(rtCorpus) <= MaxMixed THEN [set |-> FALSE, v |-> <<>>]
                        ELSE [set |-> TRUE, v |-> rtCorpus[i].vec]]
    /\ rtPlan = NoPlan /\ rtCalls = <<>>
    /\ rtRequests = [i \in 1..Len(rtCorpus) |-> 0]
    /\ rtWrites = [i \in 1..Len(rtCorpus) |-> 0]
    /\ rtRound = 1

\* The calls of a round have started: the round is over when all are done.
Dispatch(calls) ==
    /\ rtCalls' = calls
    /\ rtPc' = IF \A k \in 1..Len(calls) : calls[k].pc = "done" THEN "done" ELSE "search"

\* agenticChatStream asks the planner what to search for.
PlanRequest ==
    /\ rtPc = "idle"
    /\ rtPc' = "plan"
    /\ UNCHANGED <<rtCorpus, rtHasEmbedModel, rtUserQuery, rtEmbedding, rtPlan, rtCalls,
                   rtRequests, rtWrites, rtRound, streamVars, chunkVars, toolVars>>

\* The planner returns; its queries are searched for at once, each by its own
\* call of findRelevantChunks.
PlannerResolve ==
    /\ rtPc = "plan"
    /\ \E outcome \in PlannerOutcomes, planned \in Plans(rtUserQuery) :
         LET plan == generateSearchQueries(outcome, rtUserQuery, planned) IN
         /\ outcome # "ok" => planned = <<>>
         /\ rtPlan' = plan
         /\ Dispatch([k \in 1..Len(plan.queries) |->
                        StartCall(plan.queries[k], FALSE, rtCorpus, rtHasEmbedModel)])
    /\ UNCHANGED <<rtCorpus, rtHasEmbedModel, rtUserQuery, rtEmbedding,
                   rtRequests, rtWrites, rtRound, streamVars, chunkVars, toolVars>>

\* A single call of findRelevantChunks: the chat calls it with the user's
\* message, the command palette with forceReturnSamples.
DirectCall ==
    /\ rtPc = "idle"
    /\ \E force \in BOOLEAN :
         Dispatch(<<StartCall(rtUserQuery, force, rtCorpus, rtHasEmbedModel)>>)
    /\ UNCHANGED <<rtCorpus, rtHasEmbedModel, rtUserQuery, rtEmbedding, rtPlan,
                   rtRequests, rtWrites, rtRound, streamVars, chunkVars, toolVars>>

\* The calls after call c has become call: the round ends with the last one.
Continue(c, call) == Dispatch([rtCalls EXCEPT ![c] = call])

\* generateEmbedding(query) resolves for call c.  With an embedding, every
\* chunk is scored: one that holds an embedding at once, one that holds none
\* after a request for its own.  Without, the keywords decide.
QueryEmbedded(c) ==
    /\ rtPc = "search" /\ rtCalls[c].pc = "query"
    /\ \E qvec \in {QueryVec(rtCalls[c].query), <<>>} :
         LET call == rtCalls[c]
             n == Len(rtCorpus)
             missing == {i \in 1..n : ~rtEmbedding[i].set}
             seen == [i \in 1..n |-> rtEmbedding[i].v]
         IN IF qvec = <<>>
            THEN /\ Continue(c, CallDone(call, KeywordHits(ChunkTexts(rtCorpus), call.query), n))
                 /\ UNCHANGED rtRequests
            ELSE /\ rtRequests' = [i \in 1..n |-> rtRequests[i] + IF i \in missing THEN 1 ELSE 0]
                 /\ IF missing = {}
                    THEN Continue(c, CallDone([call EXCEPT !.qvec = qvec, !.got = seen],
                                              VectorHits(seen, qvec), n))
                    ELSE Continue(c, [call EXCEPT !.pc = "chunks", !.qvec = qvec,
                                                  !.pending = missing, !.got = seen])
    /\ UNCHANGED <<rtCorpus, rtHasEmbedModel, rtUserQuery, rtEmbedding, rtPlan,
                   rtWrites, rtRound, streamVars, chunkVars, toolVars>>

\* generateEmbedding(chunk.text) resolves for chunk i of call c, with the
\* embedding or, the request having failed, with []: it is stored on the
\* chunk and scored.  The last one ends the call.
ChunkEmbedded(c, i) ==
    /\ rtPc = "search" /\ rtCalls[c].pc = "chunks" /\ i \in rtCalls[c].pending
    /\ \E v \in {rtCorpus[i].vec, <<>>} :
         LET call == [rtCalls[c] EXCEPT !.pending = @ \ {i}, !.got[i] = v] IN
         /\ rtEmbedding' = [rtEmbedding EXCEPT ![i] = [set |-> TRUE, v |-> v]]
         /\ rtWrites' = [rtWrites EXCEPT ![i] = @ + 1]
         /\ IF call.pending = {}
            THEN Continue(c, CallDone(call, VectorHits(call.got, call.qvec), Len(rtCorpus)))
            ELSE Continue(c, call)
    /\ UNCHANGED <<rtCorpus, rtHasEmbedModel, rtUserQuery, rtPlan, rtRequests, rtRound,
                   streamVars, chunkVars, toolVars>>

\* The user sends the message again over the same corpus.
NextRound ==
    /\ rtPc = "done" /\ rtRound < MaxRounds
    /\ rtPc' = "idle"
    /\ rtRound' = rtRound + 1
    /\ rtPlan' = NoPlan /\ rtCalls' = <<>>
    /\ UNCHANGED <<rtCorpus, rtHasEmbedModel, rtUserQuery, rtEmbedding, rtRequests, rtWrites,
                   streamVars, chunkVars, toolVars>>

RetrieveNext ==
    \/ PlanRequest
    \/ PlannerResolve
    \/ DirectCall
    \/ \E c \in 1..Len(rtCalls) : QueryEmbedded(c)
    \/ \E c \in 1..Len(rtCalls), i \in 1..Len(rtCorpus) : ChunkEmbedded(c, i)
    \/ NextRound

SpecRetrieve == RetrieveInit /\ [][RetrieveNext]_vars

\* C13: over an unchanged corpus, whatever the calls and their interleaving,
\* the embedding of a chunk is requested at most once and its slot is written
\* at most once.
C13_EmbeddedAtMostOnce ==
    \A i \in 1..Len(rtCorpus) : rtRequests[i] <= 1 /\ rtWrites[i] <= 1

\* C14: after a transport failure (unreachable, or a status that is not 2xx)
\* or an unparsable response, the planner has returned the user's query as
\* the only query, with a fallback thought.
C14_PlannerFailsSoft ==
    rtPlan.outcome \in {"unreachable", "non2xx", "badBody", "badJson"} =>
        /\ rtPlan.queries = <<rtUserQuery>>
        /\ rtPlan.thought # <<>>

\* ---------------------------------------------------------------------
\* executeTool on its own: every tool name with every parameter mapping.

ToolNames ==
    {StrVal(<<n>>) : n \in {"add_title", "edit_first_paragraph", "edit_last_paragraph",
                            "edit_paragraph", "append_text", "prepend_text",
                            "replace_all", "add_table", "reply", "bogus"}}
    \cup {Undefined}

\* What a string parameter may hold: nothing, a string, the empty string, an
\* object.
StringInputs == {Undefined, StrVal(<<"Hi">>), StrVal(<<>>), ObjVal}

Optional == {Undefined, StrVal(<<"note">>)}

\* The parameter mapping that holds the defined entries of f.
MkParams(f) ==
    [ok |-> TRUE, val |-> ObjVal,
     obj |-> [k \in {<<x>> : x \in {y \in DOMAIN f : f[y] # Undefined}} |-> f[k[1]]],
     next |-> 0]

ParamMaps ==
    {MkParams(f) : f \in [{"title", "summary"} -> StringInputs]}
    \cup {MkParams(f) : f \in [{"new_content", "text"} -> StringInputs]}
    \cup {MkParams([new_content |-> c, paragraph_number |-> n]) :
            c \in StringInputs, n \in {Undefined, StrVal(<<"1">>), StrVal(<<"3">>)}}
    \cup {MkParams([text |-> t, summary |-> s, message |-> m]) :
            t \in StringInputs, s \in Optional, m \in Optional}
    \cup {MkParams([headers |-> h, rows |-> r, caption |-> c]) :
            h \in {Undefined, ArrVal(<<"h">>), StrVal(<<"h">>)},
            r \in {Undefined, RowsVal(<<"c">>), ArrVal(<<"c">>), ArrVal(<<>>)},
            c \in Optional}

ToolInit ==
    /\ StreamIdle /\ ChunkerOff /\ RetrieverOff
    /\ tlPc = "call"
    /\ tlName \in ToolNames
    /\ tlParams \in ParamMaps
    /\ tlHtml \in {Doc, <<>>, TitledDoc}
    /\ tlResult = NoResult

\* The call returns its result, or leaves by the exception it did not catch.
ToolCall ==
    /\ tlPc = "call"
    /\ LET r == executeTool(tlName, tlParams, tlHtml) IN
        /\ tlResult' = r
        /\ tlPc' = IF r.thrown THEN "threw" ELSE "returned"
    /\ UNCHANGED <<tlName, tlParams, tlHtml, streamVars, chunkVars, retrVars>>

ToolNext == ToolCall

SpecTool == ToolInit /\ [][ToolNext]_vars

\* ---------------------------------------------------------------------
\* Claims about executeTool.

ToolReturned == tlPc = "returned"

\* The tools that need a string, and whether the call gives none: title for
\* add_title, new_content or text for the edits, text for the others.
LacksRequiredString ==
    \/ /\ tlName = StrVal(<<"add_title">>)
       /\ ~IsString(Field(tlParams, "title"))
    \/ /\ tlName \in {StrVal(<<"edit_first_paragraph">>), StrVal(<<"edit_last_paragraph">>),
                      StrVal(<<"edit_paragraph">>)}
       /\ ~IsString(Field(tlParams, "new_content"))
       /\ ~IsString(Field(tlParams, "text"))
    \/ /\ tlName \in {StrVal(<<"append_text">>), StrVal(<<"prepend_text">>),
                      StrVal(<<"replace_all">>)}
       /\ ~IsString(Field(tlParams, "text"))

\* C15: a tool that requires a string parameter returns success = false with
\* a message when that parameter is missing or is not a string.
C15_MissingStringFails ==
    (ToolReturned /\ LacksRequiredString) =>
        (~tlResult.success /\ tlResult.message # <<>>)

\* C16: a result with success = false carries a message and no newHtml.
C16_FailureHasMessageNoHtml ==
    (ToolReturned /\ ~tlResult.success) =>
        (tlResult.message # <<>> /\ ~tlResult.hasNewHtml)

C16_Witness ==
    /\ ToolReturned /\ ~tlResult.success /\ tlHtml = Doc
    /\ tlName = StrVal(<<"replace_all">>)
    /\ Field(tlParams, "text") = ObjVal

\* C17: executeTool throws for no tool name and no parameter mapping; a name
\* it does not know gives success = false, and so does add_table without
\* headers or rows.
C17_NeverThrows ==
    /\ tlPc # "threw"
    /\ ToolReturned =>
        /\ tlResult.success \in BOOLEAN
        /\ (tlName \notin (ToolNames \ {StrVal(<<"bogus">>), Undefined}) => ~tlResult.success)
        /\ (/\ tlName = StrVal(<<"add_table">>)
            /\ (Field(tlParams, "headers") = Undefined \/ Field(tlParams, "rows") = Undefined)
            => ~tlResult.success)

C17_Witness ==
    /\ ToolReturned
    /\ tlName = StrVal(<<"add_table">>)
    /\ Field(tlParams, "headers") = ArrVal(<<"h">>)
    /\ Field(tlParams, "rows") = Undefined
    /\ tlResult.message = <<"Tool error: ", "rows.forEach is not a function">>

\* ---------------------------------------------------------------------
\* Claims about findRelevantChunks.

\* The calls that have returned.
Returned == {c \in 1..Len(rtCalls) : rtCalls[c].pc = "done"}

\* The call scored by embeddings (it got one for its query).
VectorMode(call) == call.qvec # <<>>

\* Chunk i is above the cut-off of the path the call took: a cosine above
\* 0.3, or a keyword score above 0.
Scores(call, i) ==
    IF VectorMode(call) THEN CosineAboveThreshold(call.qvec, call.got[i])
    ELSE KeywordScore(rtCorpus[i].text, call.query) > 0

NothingScores(call) == \A i \in 1..Len(rtCorpus) : ~Scores(call, i)

\* The samples of a corpus of n chunks: all of them up to five, else five at
\* stride floor(n / 5) from the first.
IsSample(result, n) ==
    LET stride == IF n <= TopK THEN 1 ELSE n \div TopK IN
    /\ Len(result) = Min({TopK, n})
    /\ \A k \in 1..Len(result) : result[k] = (k - 1) * stride + 1

\* C18 as stated: a general-intent query (or forceSamples) for which no chunk
\* scores returns min(5, totalChunks) chunks at stride floor(totalChunks / 5),
\* never an empty set; a query that is not general returns the empty sequence.
C18_SamplesNeverEmpty ==
    \A c \in Returned :
        LET call == rtCalls[c] IN
        NothingScores(call) =>
            IF IsGeneralQuery(call.query, call.force)
            THEN IsSample(call.result, Len(rtCorpus)) /\ call.result # <<>>
            ELSE call.result = <<>>

\* C18 amended: the same, the sample being empty when the corpus has no chunk.
C18_SamplesOfTheCorpus ==
    \A c \in Returned :
        LET call == rtCalls[c] IN
        NothingScores(call) =>
            IF IsGeneralQuery(call.query, call.force)
            THEN /\ IsSample(call.result, Len(rtCorpus))
                 /\ (call.result = <<>> <=> rtCorpus = <<>>)
            ELSE call.result = <<>>

C18_Witness ==
    \E c \in Returned :
        /\ Len(rtCorpus) = 11 /\ VectorMode(rtCalls[c]) /\ NothingScores(rtCalls[c])
        /\ rtCalls[c].result = <<1, 3, 5, 7, 9>>

\* C19: in vector mode a chunk is a relevance hit only with a cosine above
\* 0.3 (of a chunk at 0.89 and one at 0.10 the first alone is returned), and
\* the hits come in descending order of similarity.
C19_HitsAboveThresholdDescending ==
    \A c \in Returned :
        LET call == rtCalls[c]
            r == call.result
        IN (VectorMode(call) /\ ~NothingScores(call)) =>
            /\ \A k \in 1..Len(r) :
                 /\ Len(call.got[r[k]]) = 2
                 /\ 100 * Dot(call.qvec, call.got[r[k]]) * Dot(call.qvec, call.got[r[k]])
                      > 9 * Dot(call.qvec, call.qvec) * Dot(call.got[r[k]], call.got[r[k]])
            /\ \A k, l \in 1..Len(r) :
                 k < l => ~CosineGreater(call.qvec, call.got[r[l]], call.got[r[k]])
            /\ (/\ rtCorpus = <<Strong, Faint>> /\ call.qvec = <<1, 0>>
                /\ call.got = <<Strong.vec, Faint.vec>>) => r = <<1>>

C19_Witness ==
    \E c \in Returned :
        /\ VectorMode(rtCalls[c])
        /\ rtCorpus = <<Strong, Aside>> /\ rtCalls[c].got = <<Strong.vec, Aside.vec>>
        /\ rtCalls[c].qvec = <<1, 0>>
        /\ rtCalls[c].result = <<2, 1>>

C19_WitnessOnlyTheFirst ==
    \E c \in Returned :
        /\ rtCorpus = <<Strong, Faint>> /\ rtCalls[c].qvec = <<1, 0>>
        /\ rtCalls[c].got = <<Strong.vec, Faint.vec>>
        /\ rtCalls[c].result = <<1>>

\* C20: a call of findRelevantChunks returns at most five chunks, by vector
\* scores, keyword scores or sampling.
C20_AtMostFive == \A c \in Returned : Len(rtCalls[c].result) <= TopK

C20_Witness ==
    \E c \in Returned :
        /\ Len(rtCorpus) > TopK
        /\ \A i \in 1..Len(rtCorpus) : Scores(rtCalls[c], i)
        /\ rtCalls[c].result = <<1, 2, 3, 4, 5>>

\* ---------------------------------------------------------------------
\* Further claims about agenticChatStream.

\* The stream ran the executor on a parsed tool call of this tool.
Ran(tool) == Completed /\ executed = 1 /\ Field(toolCall, "tool") = StrVal(<<tool>>)

\* C21: executeTool('reply', ...) returns success = true and no newHtml for
\* every parameter mapping and document, and a stream whose final tool call
\* is reply ends with action none and empty content.
C21_ReplyLeavesDocument ==
    /\ \A params \in ParamMaps, html \in {Doc, <<>>} :
         LET result == executeTool(StrVal(<<"reply">>), params, html) IN
         result.success /\ ~result.hasNewHtml /\ ~result.thrown
    /\ Ran("reply") =>
         /\ executeTool(StrVal(<<"reply">>), toolCall, Doc).success
         /\ ~executeTool(StrVal(<<"reply">>), toolCall, Doc).hasNewHtml
         /\ FinalEvent.action = "none"
         /\ FinalEvent.content = <<>>

\* Scenario C: {"tool":"reply","message":"Paris"}.
C21_Witness == Ran("reply") /\ FinalEvent.message = <<"Paris">> /\ canvas = Doc

\* C22: within a stream isJsonDetected only goes from false to true: once
\* true it is true in every later state, through finalization.
C22_JsonDetectedStays == [][isJsonDetected => isJsonDetected']_vars

\* A stream detected as JSON over several chunks, read to its end and
\* finalized by the executor.
C22_Witness == Completed /\ isJsonDetected /\ chunksRead > 2 /\ executed = 1

\* ---------------------------------------------------------------------
\* Further claims about chunkText.

\* A chunk without its generated id.
Boundaries(chunks) ==
    [k \in 1..Len(chunks) |->
        [text |-> chunks[k].text, source |-> chunks[k].source, index |-> chunks[k].index]]

C27_ChunkWithinSize == \A k \in 1..Len(ckChunks) : Len(ckChunks[k].text) <= ckSize

\* C24: a stream that previewed an edit and ends without a successful edit
\* (the final parse fails, the executor fails, or the final tool is reply)
\* leaves the caller with the pre-edit document.
C24_NoEditLeftApplied ==
    (Completed /\ ~stopSnap.stopped /\ FinalEvent.action = "none") => canvas = Doc

\* C25: once a send was stopped and a new one started, nothing of the
\* stopped send affects the new one: its late events update neither the new
\* message nor the document, and its completion clears neither the loading
\* flag nor the controller nor the message id while the new one runs.
C25_StoppedSendIsInert ==
    second = "running" =>
        /\ ~secondTouched
        /\ canvas = stopSnap.canvas
        /\ isChatLoading /\ hasController /\ streamingId

\* C26: when the stream ends, no complete record is left in the raw buffer:
\* every record delivered has given its delta to the text, the last one
\* without a line break after it included.
C26_NoRecordLeftInBuffer ==
    endOfStream => LineParse(accumulatedRaw).ok = FALSE

\* The part of the raw bytes after their last line break.
AfterLastBreak(raw) ==
    LET nls == {i \in 1..Len(raw) : raw[i].kind = "nl"} IN
    IF nls = {} THEN raw ELSE SubSeq(raw, Max(nls) + 1, Len(raw))

\* C28: the executor runs at most once, after the stream has closed, on the
\* tool name and the parameters of the parsed text and on the pre-edit
\* document; the final event of a successful tool other than reply carries
\* the executor's newHtml.
C28_ExecutorRunsOnceOnParsedCall ==
    /\ executed <= 1
    /\ executed = 1 =>
         /\ endOfStream /\ finalParsed
         /\ toolCall.ok /\ toolCall = FinalParse(fullText)
    /\ (Completed /\ executed = 1) =>
         LET result == executeTool(Field(toolCall, "tool"), toolCall, Doc) IN
         (result.success /\ Field(toolCall, "tool") # StrVal(<<"reply">>)) =>
             /\ FinalEvent.action = "rewrite"
             /\ result.hasNewHtml
             /\ FinalEvent.content = result.newHtml

\* The previews showed an append; the parsed call is a replace_all, and its
\* result is what the final event carries.
C28_Witness ==
    /\ Ran("replace_all")
    /\ detectedTool = <<"append_text">>
    /\ prevPreview = Doc \o <<NL, "Hello", SP, "world</p>">>
    /\ FinalEvent.content = <<"Hello", SP, "world</p>">>

\* C29: the buffer never keeps a line break; a turn of the read loop keeps
\* what follows the last line break for the next chunk, leaves the text and
\* the thought alone when its chunk completes no line, and takes a record
\* cut in two once, whole, when the second part and its line break arrive.
C29_PartialLineCarriedOver ==
    /\ [](\A i \in 1..Len(accumulatedRaw) : accumulatedRaw[i].kind # "nl")
    /\ [][ReadChunk =>
            /\ accumulatedRaw' = AfterLastBreak(accumulatedRaw \o lastChunk')
            /\ (\A i \in 1..Len(lastChunk') : lastChunk'[i].kind # "nl") =>
                  (fullText' = fullText /\ accumulatedThought' = accumulatedThought)
            /\ \A r \in SplitRecords :
                  (/\ accumulatedRaw = <<Piece("head", r)>>
                   /\ lastChunk' = <<Piece("tail", r), NLPiece>>) =>
                      /\ fullText' = fullText \o r.content
                      /\ accumulatedRaw' = <<>>
                      /\ r.thinking # <<>> =>
                            emitted'[1].thought = accumulatedThought \o r.thinking]_vars

\* Scenario A with its second record cut in two network chunks.
C29_Witness ==
    /\ lastChunk = <<Piece("tail", Rec(DeltaWorldDone, <<>>)), NLPiece>>
    /\ fullText = DeltaToolAppendHello \o DeltaWorldDone
    /\ accumulatedRaw = <<>>
    /\ chunksRead = 3

\* C30: a line that is no JSON is dropped: the stream neither throws nor
\* ends, the text and the thought are as before, and a well-formed line that
\* follows it is taken as usual.
C30_MalformedLineDropped ==
    /\ [][(ReadChunk /\ lastChunk' = <<BadPiece, NLPiece>>) =>
            /\ fullText' = fullText
            /\ accumulatedThought' = accumulatedThought
            /\ accumulatedContent' = accumulatedContent
            /\ pc' = "read" /\ doneCount' = doneCount]_vars
    /\ [][(ReadChunk /\ Len(lastChunk') = 4 /\ lastChunk'[1] = BadPiece) =>
            /\ fullText' = fullText \o lastChunk'[3].rec.content
            /\ pc' = "read"]_vars

\* A reply that came on the line after one that was no JSON.
C30_Witness ==
    /\ Ran("reply")
    /\ lastChunk = <<BadPiece, NLPiece, Piece("rec", Rec(DeltaReply, <<>>)), NLPiece>>
    /\ fullText = DeltaReply
    /\ FinalEvent.message = <<"Paris">>

(* ------------- claims about the end of the stream and its messages ----- *)
\* C31: the final message of every completed stream is non-empty, and a
\* stream that ended with no visible text ends with the fixed could-not-parse
\* error message.
C31_FinalMessageNotEmpty ==
    Completed =>
        /\ FinalEvent.message # <<>>
        /\ Trim(fullText) = <<>> =>
               FinalEvent.message = <<"Error parsing AI response. Please try again.">>

\* The closing braces of the visible text once its fences are stripped.
ClosingBraces == {i \in 1..Len(CleanJson(fullText)) : CleanJson(fullText)[i] = RB}

\* C32: at the end of a JSON-detected stream the document handed to the
\* parser is the fence-stripped text up to and including its last closing
\* brace: the call is parsed exactly when that prefix parses, and is its value.
C32_CandidateEndsAtLastBrace ==
    finalParsed =>
        LET c == CleanJson(fullText)
            parsed == IF ClosingBraces = {} THEN ParseFail
                      ELSE JsonParse(Slice(c, 1, Max(ClosingBraces)))
        IN /\ parsed.ok <=> (pc = "import" \/ executed = 1)
           /\ parsed.ok => toolCall = parsed

\* A fenced reply with braces inside its message and text after its last
\* brace was parsed and its message delivered.
C32_Witness ==
    /\ Completed /\ executed = 1
    /\ StartsWith(fullText, FenceJson) /\ fullText[Len(fullText)] = Fence
    /\ Cardinality(ClosingBraces) > 1
    /\ Max(ClosingBraces) < Len(CleanJson(fullText))
    /\ FinalEvent.message = <<"use", SP, LB, "x", RB>>

(* ------------------- claims about keyword retrieval -------------------- *)
\* The query tokens that count: those longer than three characters.
Tokens(query) == {i \in 1..Len(query) : Len(Lower(query[i])) > 3}

\* Five when the whole query appears in the text.
WholeQueryBonus(text, query) ==
    IF \E p \in 0..(Len(text) - Len(query)) :
           \A k \in 1..Len(query) : Lower(text[p + k]) = Lower(query[k])
    THEN 5 ELSE 0

\* The score of every chunk when each occurrence of a token counts.
OccurrenceScores(query) ==
    [i \in 1..Len(rtCorpus) |->
        Cardinality({tp \in Tokens(query) \X (1..Len(rtCorpus[i].text)) :
                        Lower(rtCorpus[i].text[tp[2]]) = Lower(query[tp[1]])})
        + WholeQueryBonus(rtCorpus[i].text, query)]

\* The score of every chunk when a token counts once, however often it occurs.
PresenceScores(query) ==
    [i \in 1..Len(rtCorpus) |->
        Cardinality({t \in Tokens(query) :
                        \E p \in 1..Len(rtCorpus[i].text) :
                            Lower(rtCorpus[i].text[p]) = Lower(query[t])})
        + WholeQueryBonus(rtCorpus[i].text, query)]

\* r lists the chunks that score above 0 under sc, best first, equal scores
\* in corpus order, at most five of them and none left out for a worse one.
Ranked(r, sc) ==
    LET hits == {i \in DOMAIN sc : sc[i] > 0} IN
    /\ \A k \in 1..Len(r) : r[k] \in hits
    /\ Len(r) = Min({TopK, Cardinality(hits)})
    /\ \A k, l \in 1..Len(r) :
         k < l => (sc[r[k]] > sc[r[l]] \/ (sc[r[k]] = sc[r[l]] /\ r[k] < r[l]))
    /\ \A i \in hits :
         (\A k \in 1..Len(r) : r[k] # i) =>
             \A k \in 1..Len(r) : sc[r[k]] > sc[i] \/ (sc[r[k]] = sc[i] /\ r[k] < i)

\* The calls that returned keyword hits (not the samples of a general query).
KeywordReturned ==
    {c \in Returned :
        /\ ~VectorMode(rtCalls[c])
        /\ ~(/\ \A i \in 1..Len(rtCorpus) : PresenceScores(rtCalls[c].query)[i] = 0
             /\ IsGeneralQuery(rtCalls[c].query, rtCalls[c].force))}

\* C33 as stated: in keyword mode a chunk scores the number of occurrences of
\* each query token longer than 3 characters, plus 5 when it holds the whole
\* query; the chunks scoring above 0 are returned best first, ties in corpus
\* order, at most 5.
C33_ScoreCountsOccurrences ==
    \A c \in KeywordReturned : Ranked(rtCalls[c].result, OccurrenceScores(rtCalls[c].query))

\* C33 amended: the same, a token counting one when the chunk contains it,
\* however many times.
C33_ScoreCountsTokensPresent ==
    \A c \in KeywordReturned : Ranked(rtCalls[c].result, PresenceScores(rtCalls[c].query))

\* A chunk that holds one token three times comes after a chunk that holds
\* two tokens once each.
C33_Witness ==
    \E c \in KeywordReturned :
        /\ rtCorpus = <<Aside, Faint>>
        /\ rtCalls[c].query = <<"rust", "lifetimes">>
        /\ rtCalls[c].result = <<2, 1>>

\* Call c returns in this step without an embedding of its query.
ReturnsByKeywords(c) ==
    /\ c \in 1..Len(rtCalls) /\ c \in 1..Len(rtCalls')
    /\ rtCalls[c].pc = "query" /\ rtCalls'[c].pc = "done" /\ rtCalls'[c].qvec = <<>>

\* C34: a call scores by keywords exactly when no embedding model is
\* configured or the embedding of its query came back empty (the request
\* failed); such a call requests, reads and stores no chunk embedding, and
\* returns the keyword hits or the samples of a general query.
C34_KeywordModeWithoutEmbeddings ==
    /\ [](\A c \in Returned :
            LET call == rtCalls[c]
                n == Len(rtCorpus)
            IN /\ ~rtHasEmbedModel => ~VectorMode(call)
               /\ VectorMode(call) =>
                    call.result = HitsOrSamples(VectorHits(call.got, call.qvec), n,
                                                IsGeneralQuery(call.query, call.force))
               /\ ~VectorMode(call) =>
                    /\ call.pending = {}
                    /\ \A i \in 1..n : call.got[i] = <<>>
                    /\ IF c \in KeywordReturned
                       THEN Ranked(call.result, PresenceScores(call.query))
                       ELSE IsSample(call.result, n))
    /\ [](~rtHasEmbedModel =>
            \A i \in 1..Len(rtCorpus) : rtRequests[i] = 0 /\ rtWrites[i] = 0)
    /\ [][(\E c \in 1..Len(rtCalls) : ReturnsByKeywords(c)) =>
            UNCHANGED <<rtRequests, rtWrites, rtEmbedding>>]_vars

\* With a model configured, the embedding of the query failed while another
\* call of the same round had chunks embedded: the call returned the keyword
\* hits.
C34_Witness ==
    \E c \in Returned :
        /\ rtHasEmbedModel /\ ~VectorMode(rtCalls[c])
        /\ rtCorpus = <<Aside, Faint>>
        /\ rtCalls[c].query = <<"rust", "lifetimes">>
        /\ rtCalls[c].result = <<2, 1>>
        /\ \E i \in 1..Len(rtCorpus) : rtWrites[i] > 0

(* ------------------- the cut of a chunkText window --------------------- *)
\* The indices (from 0) up to the window end that hold one of the characters.
Before(windowEnd, chars) ==
    {i \in 0..Min({windowEnd, Len(ckText) - 1}) : ckText[i + 1] \in chars}

\* Where the rule of C35 cuts the window that starts at ckStart.
RuleCut ==
    LET windowEnd == ckStart + ckSize
        terminators == Before(windowEnd, {".", "?", "!"})
        spaces == {i \in Before(windowEnd, {" "}) : i > ckStart}
    IN IF windowEnd >= Len(ckText) THEN windowEnd
       ELSE IF terminators # {} /\ 2 * Max(terminators) > 2 * ckStart + ckSize
            THEN Max(terminators) + 1
       ELSE IF spaces # {} THEN Max(spaces)
       ELSE windowEnd

\* C35: a window that ends before the end of the text is cut just after the
\* nearest sentence terminator behind the window end when that lies past half
\* of the window, else at the nearest space of the window, else at its full
\* size; the next window starts overlap characters before the cut, and the
\* chunk is the trimmed text up to the cut.  The overlap is no negative
\* number and the window does not end before the text begins.
C35_CutAtSentenceElseSpace ==
    [][(/\ ckPc = "loop" /\ ckStart < Len(ckText) /\ ckIter' = ckIter + 1
        /\ ckOverlap >= 0 /\ ckStart + ckSize >= 0) =>
          /\ ckStart' = RuleCut - ckOverlap
          /\ LET chunk == TrimSpaces(SliceJs(ckText, ckStart, RuleCut)) IN
               IF chunk = <<>> THEN ckChunks' = ckChunks
               ELSE /\ Len(ckChunks') = Len(ckChunks) + 1
                    /\ ckChunks'[Len(ckChunks')].text = chunk]_vars

\* 'a .?a' in windows of 4 with an overlap of 1: the first window is cut
\* after '?', the nearer of its two terminators, not at the space before
\* them, and the second window starts on the '?'.
C35_Witness ==
    /\ ckPc = "loop" /\ ckIter = 1
    /\ ckText = <<"a", " ", ".", "?", "a">> /\ ckSize = 4 /\ ckOverlap = 1
    /\ ckStart = 3
    /\ ckChunks[1].text = <<"a", " ", ".", "?">>

(* ------------------- claims about the paragraph edits ------------------ *)
\* The k-th "<p>" of a document, its closing "</p>", and the text between.
ParagraphOpen(html, k) ==
    CHOOSE i \in ParagraphStarts(html) : Cardinality({j \in ParagraphStarts(html) : j < i}) = k - 1

ParagraphClose(html, k) ==
    Min({j \in (ParagraphOpen(html, k) + 1)..Len(html) : html[j] = PClose})

ParagraphText(html, k) == Slice(html, ParagraphOpen(html, k) + 1, ParagraphClose(html, k) - 1)

\* The paragraph an edit tool aims at, counted from 1 (0 when the call names
\* no paragraph number).
TargetParagraph ==
    IF tlName = StrVal(<<"edit_first_paragraph">>) THEN 1
    ELSE IF tlName = StrVal(<<"edit_last_paragraph">>) THEN Cardinality(ParagraphStarts(tlHtml))
    ELSE IF Field(tlParams, "paragraph_number") = StrVal(<<"1">>) THEN 1
    ELSE IF Field(tlParams, "paragraph_number") = StrVal(<<"3">>) THEN 3
    ELSE 0

\* An edit tool returned success.
EditSucceeded ==
    /\ ToolReturned /\ tlResult.success
    /\ tlName \in {StrVal(<<"edit_first_paragraph">>), StrVal(<<"edit_last_paragraph">>),
                   StrVal(<<"edit_paragraph">>)}

\* C36: after a successful edit_first_paragraph, edit_last_paragraph or
\* edit_paragraph(n) the targeted paragraph exists and holds the new content,
\* and the rest of the document is as it was: the same paragraphs with the
\* same text, and the same tokens before and after the targeted one.
C36_EditReplacesTargetOnly ==
    EditSucceeded =>
        LET count == Cardinality(ParagraphStarts(tlHtml))
            new == tlResult.newHtml
            t == TargetParagraph
        IN /\ t \in 1..count
           /\ Cardinality(ParagraphStarts(new)) = count
           /\ ParagraphText(new, t) = EditContent(tlParams).v
           /\ \A k \in (1..count) \ {t} : ParagraphText(new, k) = ParagraphText(tlHtml, k)
           /\ Slice(new, 1, ParagraphOpen(new, t)) = Slice(tlHtml, 1, ParagraphOpen(tlHtml, t))
           /\ Slice(new, ParagraphClose(new, t), Len(new))
                = Slice(tlHtml, ParagraphClose(tlHtml, t), Len(tlHtml))

\* The same for the calls whose target exists: the frame half of C36.
C36_ExistingTargetReplaced ==
    (EditSucceeded /\ TargetParagraph \in 1..Cardinality(ParagraphStarts(tlHtml))) =>
        C36_EditReplacesTargetOnly

(* ------------------- claims about the status messages ------------------ *)
\* The fixed status strings of the read loop, and the status the stream
\* starts with.
StatusStrings ==
    {<<"Thinking...">>, <<"Processing response...">>, <<"Writing...">>, <<"Processing...">>,
     <<"Generating...">>, InitialMessage(plannerThought)}

\* C37: the events of a turn of the read loop carry a fixed status string as
\* their message; only before JSON is detected can the message be the text
\* itself, and then the text is under 50 characters and holds no "{".
C37_StatusNeverShowsJson ==
    [][chunksRead' = chunksRead + 1 =>
          \A k \in 1..Len(emitted') :
              LET m == emitted'[k].message IN
              \/ m \in StatusStrings
              \/ /\ ~isJsonDetected'
                 /\ m = fullText' /\ StrLen(m) < 50 /\ ~Includes(m, LB)]_vars

(* ------------- the final event and the split of the stream ------------- *)
\* The final event (action, message, content) of a stream whose records all
\* arrive in one network chunk with the visible text text.
WholeStreamFinal(text) ==
    IF ~(StartsWith(Trim(text), LB) \/ StartsWith(Trim(text), FenceJson))
    THEN [action |-> "none", message |-> text, content |-> <<>>]
    ELSE IF FinalParse(text).ok THEN ToolOutcome(FinalParse(text), Doc)
    ELSE [action |-> "none", message |-> ParseFallback(text), content |-> <<>>]

\* C38: for records that all end in a line break, the final event (action,
\* message, content) is that of the same records arriving in one chunk,
\* however the bytes were split into network chunks.
C38_FinalEventWhateverTheSplit ==
    (Completed /\ accumulatedRaw = <<>>) =>
        /\ FinalEvent.action = WholeStreamFinal(fullText).action
        /\ FinalEvent.message = WholeStreamFinal(fullText).message
        /\ FinalEvent.content = WholeStreamFinal(fullText).content

\* Scenario A with its second record cut in two network chunks ended with the
\* rewrite of the unsplit stream.
C38_Witness ==
    /\ Completed /\ accumulatedRaw = <<>>
    /\ lastChunk = <<Piece("tail", Rec(DeltaWorldDone, <<>>)), NLPiece>>
    /\ fullText = DeltaToolAppendHello \o DeltaWorldDone
    /\ FinalEvent.action = "rewrite"
    /\ FinalEvent.content = Doc \o <<POpen, "Hello", SP, "world</p>", PClose>>

====
